---------------------------- MODULE Spec2Model ----------------------------
(***************************************************************************)
(* Verification model of the escrow programs of email.sol:                 *)
(*   escrow-contract  (fee-charging, 30 day timeout)             -> Spec   *)
(*   Zero/programs/escrow (release / withhold)                   -> SpecZero *)
(*   escrow/programs/solmail_escrow (claim-time binding, 15 d)   -> SpecSolmail *)
(*   the fee split of escrow-contract on boundary amounts        -> SpecFee *)
(*                                                                         *)
(* Environment (the host ledger, spec.md section 1 and 2):                 *)
(*  - an instruction is atomic: when it returns an error, every change it  *)
(*    made (account creation included) is rolled back;                     *)
(*  - Anchor validates the Accounts struct (init, constraint = ... @ Err)  *)
(*    before the handler body runs;                                        *)
(*  - the ledger is a map from accounts to u64 lamports with plain debit / *)
(*    credit primitives.  A system transfer fails when the payer holds     *)
(*    less than the amount.  Signature, ownership and balance-sum checks   *)
(*    of the runtime are not part of the programs and are not modelled.    *)
(*                                                                         *)
(* u64 / u128 values are little-endian sequences of 16 bit limbs, because  *)
(* the programs' arithmetic is claimed correct up to u64::MAX.             *)
(*                                                                         *)
(* Zero/arcium_mxe (confidential scoring): queueing and callbacks -> SpecMxe *)
(*  - the arcium program and the MPC cluster are the environment: a queued *)
(*    computation stays at its offset until the cluster delivers an output *)
(*    to the callback instruction the request registered.                  *)
(***************************************************************************)
EXTENDS Integers, Sequences, FiniteSets, TLC

VARIABLES
    lamports,   \* ledger: account -> u64 balance
    now,        \* Clock::get()?.unix_timestamp
    escrows,    \* escrow-contract: PDA -> Escrow record, or NoAccount
    zero,       \* Zero escrow: PDA -> EscrowAccount record, or NoAccount
    solmail,    \* solmail_escrow: PDA -> Escrow record, or NoAccount
    commits,    \* history: PDA -> number of resolutions that committed (paid out)
    last,       \* the last instruction processed and its result
    probe,      \* fee split under test: amount and the computed fee / net
    computations, \* arcium_mxe: computation offset -> queued computation, or NoAccount
    events      \* arcium_mxe: the events emitted by committed callbacks

vars == <<lamports, now, escrows, zero, solmail, commits, last, probe,
          computations, events>>

-----------------------------------------------------------------------------
(* Fixed-width unsigned arithmetic on limb sequences.                       *)

Base == 2^16

U64Limbs == 4

U128Limbs == 8

RECURSIVE FromNat(_, _)
\* the k-limb value of a natural number n < 2^31
FromNat(n, k) ==
    IF k = 0 THEN <<>> ELSE <<n % Base>> \o FromNat(n \div Base, k - 1)

U64(n) == FromNat(n, U64Limbs)

U64Max == [i \in 1..U64Limbs |-> Base - 1]

RECURSIVE AddLimbs(_, _, _)
\* a + b + c; the result has one limb more than a, the carry out
AddLimbs(a, b, c) ==
    IF a = <<>> THEN <<c>>
    ELSE LET s == Head(a) + Head(b) + c
         IN  <<s % Base>> \o AddLimbs(Tail(a), Tail(b), s \div Base)

RECURSIVE SubLimbs(_, _, _)
\* a - b - c modulo Base^Len(a); the extra last limb is the borrow out
SubLimbs(a, b, c) ==
    IF a = <<>> THEN <<c>>
    ELSE LET d == Head(a) - Head(b) - c
         IN  <<d % Base>> \o SubLimbs(Tail(a), Tail(b), IF d < 0 THEN 1 ELSE 0)

RECURSIVE MulLimbs(_, _, _)
\* a * k + c for a small factor k; one limb more than a
MulLimbs(a, k, c) ==
    IF a = <<>> THEN <<c>>
    ELSE LET p == Head(a) * k + c
         IN  <<p % Base>> \o MulLimbs(Tail(a), k, p \div Base)

RECURSIVE DivLimbs(_, _)
\* quotient and remainder of a by a small divisor d
DivLimbs(a, d) ==
    IF a = <<>> THEN [q |-> <<>>, r |-> 0]
    ELSE LET hi  == DivLimbs(Tail(a), d)
             cur == hi.r * Base + Head(a)
         IN  [q |-> <<cur \div d>> \o hi.q, r |-> cur % d]

\* `as u128`: zero extension to k limbs
Widen(a, k) == a \o [i \in 1..(k - Len(a)) |-> 0]

\* `as u64`: truncation to the low k limbs
Narrow(a, k) == SubSeq(a, 1, k)

Low(a) == SubSeq(a, 1, Len(a) - 1)

Carry(a) == a[Len(a)]

\* a >= b for equally long values
Ge(a, b) == Carry(SubLimbs(a, b, 0)) = 0

Gt(a, b) == Ge(a, b) /\ a # b

Zero64 == U64(0)

-----------------------------------------------------------------------------
(* Accounts, the ledger and the clock.                                      *)

NumKeys == 2

Keys == 1..NumKeys

\* a string is modelled by its byte length: one representative per length
MaxEmailLen == 256

EmailIds == {MaxEmailLen, MaxEmailLen + 1}

Wallet(k) == <<"wallet", k, 0>>

\* seeds = [ESCROW_SEED, email_id.as_bytes(), sender.key().as_ref()]
EscrowPda(email_id, sender) == <<"escrow", email_id, sender>>

EscrowPdas == {EscrowPda(e, k) : e \in EmailIds, k \in Keys}

ZeroMsgIds == 1..2

\* seeds = [b"escrow", msg_id.as_bytes()]
ZeroPda(msg_id) == <<"zero", msg_id, 0>>

ZeroPdas == {ZeroPda(m) : m \in ZeroMsgIds}

ThreadIds == 1..2

\* seeds = [b"escrow", sender.key().as_ref(), &thread_id]
SolmailPda(sender, thread_id) == <<"solmail", sender, thread_id>>

SolmailPdas == {SolmailPda(k, t) : k \in Keys, t \in ThreadIds}

Wallets == {Wallet(k) : k \in Keys}

Accounts == Wallets \cup EscrowPdas \cup ZeroPdas \cup SolmailPdas

\* an address that holds no program account
NoAccount == [status |-> "NoAccount"]

\* Rent::get()?.minimum_balance(space): the minimum reserve of an account
RentLamports == 60

RentExempt == U64(RentLamports)

\* a ledger operation on a ledger that may already have failed
Ledger(l) == [ok |-> TRUE, l |-> l]

\* `**a.try_borrow_mut_lamports()? -= x`
SubLamports(r, a, x) ==
    IF r.ok /\ Ge(r.l[a], x)
    THEN [ok |-> TRUE, l |-> [r.l EXCEPT ![a] = Low(SubLimbs(@, x, 0))]]
    ELSE [ok |-> FALSE, l |-> r.l]

\* `**a.try_borrow_mut_lamports()? += x`
AddLamports(r, a, x) ==
    IF r.ok /\ Carry(AddLimbs(r.l[a], x, 0)) = 0
    THEN [ok |-> TRUE, l |-> [r.l EXCEPT ![a] = Low(AddLimbs(@, x, 0))]]
    ELSE [ok |-> FALSE, l |-> r.l]

\* system_program::transfer(from, to, amount)
Transfer(r, from, to, amount) == AddLamports(SubLamports(r, from, amount), to, amount)

\* the outcome of an instruction that failed: the program's accounts
\* and the ledger are what they were
Fail(err, accounts) == [err |-> err, accounts |-> accounts, lamports |-> lamports]

NoInstruction == [op |-> "none", err |-> "none", signer |-> 0]

-----------------------------------------------------------------------------
(* escrow-contract: constants and the Escrow account.                       *)

PLATFORM_FEE_BPS == 200

ESCROW_TIMEOUT_SECONDS == 30 * 24 * 60 * 60

\* ctx.bumps.escrow: the canonical bump of the seeds, fixed per address
BumpOf(pda) == 255

\* faulty variant: the deadline itself does not count as expired
is_expired_strict(escrow, current_time) == current_time > escrow.expires_at

is_expired(escrow, current_time) == current_time >= escrow.expires_at

\* faulty variant: the product is formed in u64 and wraps
calculate_platform_fee_u64(escrow) ==
    DivLimbs(Narrow(MulLimbs(escrow.amount, 200, 0), U64Limbs), 10000).q

\* (self.amount as u128 * 200u128 / 10000u128) as u64
calculate_platform_fee(escrow) ==
    LET wide    == Widen(escrow.amount, U128Limbs)
        product == Narrow(MulLimbs(wide, 200, 0), U128Limbs)
    IN  Narrow(DivLimbs(product, 10000).q, U64Limbs)

\* faulty variant: the recipient share is rounded on its own, as 98% of the amount
calculate_recipient_amount_rounded(escrow) ==
    Narrow(DivLimbs(MulLimbs(escrow.amount, 9800, 0), 10000).q, U64Limbs)

\* self.amount - self.calculate_platform_fee()
calculate_recipient_amount(escrow) ==
    Low(SubLimbs(escrow.amount, calculate_platform_fee(escrow), 0))

-----------------------------------------------------------------------------
(* escrow-contract: the three instructions.  Each operator is the outcome   *)
(* of one instruction in the current state: the error code ("Ok" when it    *)
(* commits), the program's accounts and the ledger after it.                *)

\* #[account(init, payer = sender, space = ..., seeds = ..., bump)]:
\* the payer funds the new account with the minimum reserve
InitAccount(payer, pda) ==
    Transfer(Ledger(lamports), Wallet(payer), pda, RentExempt)

\* faulty variant: an account that exists is initialised again
CreateEscrowAccounts_again(sender, email_id) ==
    IF ~InitAccount(sender, EscrowPda(email_id, sender)).ok
    THEN "InsufficientFunds" ELSE "Ok"

\* struct CreateEscrow: the account validation that precedes the handler
CreateEscrowAccounts(sender, email_id) ==
    LET pda == EscrowPda(email_id, sender)
    IN  IF escrows[pda] # NoAccount THEN "AccountAlreadyInUse"
        ELSE IF ~InitAccount(sender, pda).ok THEN "InsufficientFunds"
        ELSE "Ok"

\* the handler, on a validated context
create_escrow(sender, recipient, platform, email_id, amount) ==
    LET pda  == EscrowPda(email_id, sender)
        paid == Transfer(InitAccount(sender, pda), Wallet(sender), pda, amount)
    IN  IF ~(email_id <= MaxEmailLen) THEN Fail("InvalidEmailId", escrows)
        ELSE IF ~Gt(amount, Zero64) THEN Fail("ConstraintRaw", escrows)
        ELSE IF ~paid.ok THEN Fail("InsufficientFunds", escrows)
        ELSE [err      |-> "Ok",
              accounts |-> [escrows EXCEPT ![pda] =
                              [sender     |-> sender,
                               recipient  |-> recipient,
                               platform   |-> platform,
                               amount     |-> amount,
                               email_id   |-> email_id,
                               status     |-> "Pending",
                               created_at |-> now,
                               expires_at |-> now + ESCROW_TIMEOUT_SECONDS,
                               bump       |-> BumpOf(pda)]],
              lamports |-> paid.l]

\* struct ReleaseEscrow: the account validation that precedes the handler
ReleaseEscrowAccounts(recipient, pda, platform) ==
    IF escrows[pda] = NoAccount THEN "AccountNotInitialized"
    ELSE IF platform # escrows[pda].platform THEN "InvalidPlatform"
    ELSE "Ok"

\* faulty variant: the status guard is missing
release_escrow_no_status_guard(recipient, pda, platform) ==
    LET escrow == escrows[pda]
        paid == AddLamports(
                    AddLamports(
                        SubLamports(Ledger(lamports), pda, escrow.amount),
                        Wallet(platform), calculate_platform_fee(escrow)),
                    Wallet(recipient), calculate_recipient_amount(escrow))
    IN  IF is_expired(escrow, now) THEN Fail("EscrowExpired", escrows)
        ELSE IF escrow.recipient # recipient THEN Fail("InvalidRecipient", escrows)
        ELSE IF ~paid.ok THEN Fail("ArithmeticOverflow", escrows)
        ELSE [err      |-> "Ok",
              accounts |-> [escrows EXCEPT ![pda].status = "Released"],
              lamports |-> paid.l]

\* faulty variant: the recipient guard is missing
release_escrow_no_recipient_guard(recipient, pda, platform) ==
    LET escrow == escrows[pda]
        paid == AddLamports(
                    AddLamports(
                        SubLamports(Ledger(lamports), pda, escrow.amount),
                        Wallet(platform), calculate_platform_fee(escrow)),
                    Wallet(recipient), calculate_recipient_amount(escrow))
    IN  IF escrow.status # "Pending" THEN Fail("EscrowNotPending", escrows)
        ELSE IF is_expired(escrow, now) THEN Fail("EscrowExpired", escrows)
        ELSE IF ~paid.ok THEN Fail("ArithmeticOverflow", escrows)
        ELSE [err      |-> "Ok",
              accounts |-> [escrows EXCEPT ![pda].status = "Released"],
              lamports |-> paid.l]

\* faulty variant: the expiry guard is missing
release_escrow_no_expiry_guard(recipient, pda, platform) ==
    LET escrow == escrows[pda]
        paid == AddLamports(
                    AddLamports(
                        SubLamports(Ledger(lamports), pda, escrow.amount),
                        Wallet(platform), calculate_platform_fee(escrow)),
                    Wallet(recipient), calculate_recipient_amount(escrow))
    IN  IF escrow.status # "Pending" THEN Fail("EscrowNotPending", escrows)
        ELSE IF escrow.recipient # recipient THEN Fail("InvalidRecipient", escrows)
        ELSE IF ~paid.ok THEN Fail("ArithmeticOverflow", escrows)
        ELSE [err      |-> "Ok",
              accounts |-> [escrows EXCEPT ![pda].status = "Released"],
              lamports |-> paid.l]

\* faulty variant: the amount of the record is cleared once it is paid
release_escrow_clears_amount(recipient, pda, platform) ==
    LET escrow == escrows[pda]
        paid == AddLamports(
                    AddLamports(
                        SubLamports(Ledger(lamports), pda, escrow.amount),
                        Wallet(platform), calculate_platform_fee(escrow)),
                    Wallet(recipient), calculate_recipient_amount(escrow))
    IN  IF escrow.status # "Pending" THEN Fail("EscrowNotPending", escrows)
        ELSE IF is_expired(escrow, now) THEN Fail("EscrowExpired", escrows)
        ELSE IF escrow.recipient # recipient THEN Fail("InvalidRecipient", escrows)
        ELSE IF ~paid.ok THEN Fail("ArithmeticOverflow", escrows)
        ELSE [err      |-> "Ok",
              accounts |-> [escrows EXCEPT ![pda].status = "Released",
                                           ![pda].amount = Zero64],
              lamports |-> paid.l]

\* the handler, on a validated context
release_escrow(recipient, pda, platform) ==
    LET escrow           == escrows[pda]
        total_amount     == escrow.amount
        platform_fee     == calculate_platform_fee(escrow)
        recipient_amount == calculate_recipient_amount(escrow)
        paid == AddLamports(
                    AddLamports(
                        SubLamports(Ledger(lamports), pda, total_amount),
                        Wallet(platform), platform_fee),
                    Wallet(recipient), recipient_amount)
    IN  IF escrow.status # "Pending" THEN Fail("EscrowNotPending", escrows)
        ELSE IF is_expired(escrow, now) THEN Fail("EscrowExpired", escrows)
        ELSE IF escrow.recipient # recipient THEN Fail("InvalidRecipient", escrows)
        ELSE IF ~paid.ok THEN Fail("ArithmeticOverflow", escrows)
        ELSE [err      |-> "Ok",
              accounts |-> [escrows EXCEPT ![pda].status = "Released"],
              lamports |-> paid.l]

\* faulty variant: the sender account is not compared with the record
RefundEscrowAccounts_any_sender(refunder, pda, sender) ==
    IF escrows[pda] = NoAccount THEN "AccountNotInitialized" ELSE "Ok"

\* struct RefundEscrow: the account validation that precedes the handler
RefundEscrowAccounts(refunder, pda, sender) ==
    IF escrows[pda] = NoAccount THEN "AccountNotInitialized"
    ELSE IF sender # escrows[pda].sender THEN "InvalidSender"
    ELSE "Ok"

\* faulty variant: the status guard is missing
refund_escrow_no_status_guard(refunder, pda, sender) ==
    LET escrow == escrows[pda]
        paid == AddLamports(SubLamports(Ledger(lamports), pda, escrow.amount),
                            Wallet(sender), escrow.amount)
    IN  IF ~(escrow.sender = refunder \/ is_expired(escrow, now))
             THEN Fail("EscrowTimeoutNotReached", escrows)
        ELSE IF ~paid.ok THEN Fail("ArithmeticOverflow", escrows)
        ELSE [err      |-> "Ok",
              accounts |-> [escrows EXCEPT ![pda].status = "Refunded"],
              lamports |-> paid.l]

\* faulty variant: the sender too has to wait for the timeout
refund_escrow_sender_waits(refunder, pda, sender) ==
    LET escrow == escrows[pda]
        paid == AddLamports(SubLamports(Ledger(lamports), pda, escrow.amount),
                            Wallet(sender), escrow.amount)
    IN  IF escrow.status # "Pending" THEN Fail("EscrowNotPending", escrows)
        ELSE IF ~is_expired(escrow, now)
             THEN Fail("EscrowTimeoutNotReached", escrows)
        ELSE IF ~paid.ok THEN Fail("ArithmeticOverflow", escrows)
        ELSE [err      |-> "Ok",
              accounts |-> [escrows EXCEPT ![pda].status = "Refunded"],
              lamports |-> paid.l]

\* faulty variant: only the sender may refund, the timeout opens nothing
refund_escrow_sender_only(refunder, pda, sender) ==
    LET escrow    == escrows[pda]
        is_sender == escrow.sender = refunder
        paid == AddLamports(SubLamports(Ledger(lamports), pda, escrow.amount),
                            Wallet(sender), escrow.amount)
    IN  IF escrow.status # "Pending" THEN Fail("EscrowNotPending", escrows)
        ELSE IF ~is_sender THEN Fail("EscrowTimeoutNotReached", escrows)
        ELSE IF ~paid.ok THEN Fail("ArithmeticOverflow", escrows)
        ELSE [err      |-> "Ok",
              accounts |-> [escrows EXCEPT ![pda].status = "Refunded"],
              lamports |-> paid.l]

\* the handler, on a validated context
refund_escrow(refunder, pda, sender) ==
    LET escrow        == escrows[pda]
        is_sender     == escrow.sender = refunder
        refund_amount == escrow.amount
        paid == AddLamports(SubLamports(Ledger(lamports), pda, refund_amount),
                            Wallet(sender), refund_amount)
    IN  IF escrow.status # "Pending" THEN Fail("EscrowNotPending", escrows)
        ELSE IF ~(is_sender \/ is_expired(escrow, now))
             THEN Fail("EscrowTimeoutNotReached", escrows)
        ELSE IF is_sender /\ escrow.sender # refunder THEN Fail("InvalidSender", escrows)
        ELSE IF ~paid.ok THEN Fail("ArithmeticOverflow", escrows)
        ELSE [err      |-> "Ok",
              accounts |-> [escrows EXCEPT ![pda].status = "Refunded"],
              lamports |-> paid.l]

\* the program's entry points (mod escrow_contract): validation, then handler
CreateEscrowIx(sender, recipient, platform, email_id, amount) ==
    IF CreateEscrowAccounts(sender, email_id) # "Ok"
    THEN Fail(CreateEscrowAccounts(sender, email_id), escrows)
    ELSE create_escrow(sender, recipient, platform, email_id, amount)

ReleaseEscrowIx(recipient, pda, platform) ==
    IF ReleaseEscrowAccounts(recipient, pda, platform) # "Ok"
    THEN Fail(ReleaseEscrowAccounts(recipient, pda, platform), escrows)
    ELSE release_escrow(recipient, pda, platform)

RefundEscrowIx(refunder, pda, sender) ==
    IF RefundEscrowAccounts(refunder, pda, sender) # "Ok"
    THEN Fail(RefundEscrowAccounts(refunder, pda, sender), escrows)
    ELSE refund_escrow(refunder, pda, sender)

-----------------------------------------------------------------------------
(* escrow-contract: the state machine.                                      *)

Amounts == {U64(0), U64(1), U64(50)}

InitialFunds == 120

\* the instants the clock visits: around creation and around the timeout
ClockSlack == 0

Instants ==
    {0} \cup ((ESCROW_TIMEOUT_SECONDS - 1)..(ESCROW_TIMEOUT_SECONDS + ClockSlack))

\* arcium_mxe: the computation offsets a request may name (computation_offset)
ComputationOffsets == {1, 2}

InitLedger(funds) ==
    [a \in Accounts |-> IF a = Wallet(1) THEN funds ELSE Zero64]

Init ==
    /\ lamports = InitLedger(U64(InitialFunds))
    /\ now = 0
    /\ escrows = [p \in EscrowPdas |-> NoAccount]
    /\ zero = [p \in ZeroPdas |-> NoAccount]
    /\ solmail = [p \in SolmailPdas |-> NoAccount]
    /\ commits = [p \in EscrowPdas \cup SolmailPdas |-> 0]
    /\ last = NoInstruction
    /\ probe = <<>>
    /\ computations = [c \in ComputationOffsets |-> NoAccount]
    /\ events = <<>>

\* the clock is monotonic
Tick(instants) ==
    /\ \E t \in instants : t > now /\ now' = t
    /\ last' = NoInstruction
    /\ UNCHANGED <<lamports, escrows, zero, solmail, commits, probe, computations, events>>

\* processing one escrow-contract instruction with outcome o
Process(op, signer, pda, o) ==
    /\ escrows' = o.accounts
    /\ lamports' = o.lamports
    /\ last' = [op |-> op, err |-> o.err, signer |-> signer]
    /\ commits' = IF o.err = "Ok" /\ op # "create_escrow"
                  THEN [commits EXCEPT ![pda] = @ + 1] ELSE commits
    /\ UNCHANGED <<now, zero, solmail, probe, computations, events>>

CreateEscrow ==
    \E sender \in Keys, recipient \in Keys, platform \in Keys,
       email_id \in EmailIds, amount \in Amounts :
        Process("create_escrow", sender, EscrowPda(email_id, sender),
                CreateEscrowIx(sender, recipient, platform, email_id, amount))

ReleaseEscrow ==
    \E recipient \in Keys, pda \in EscrowPdas, platform \in Keys :
        Process("release_escrow", recipient, pda,
                ReleaseEscrowIx(recipient, pda, platform))

RefundEscrow ==
    \E refunder \in Keys, pda \in EscrowPdas, sender \in Keys :
        Process("refund_escrow", refunder, pda,
                RefundEscrowIx(refunder, pda, sender))

Next == CreateEscrow \/ ReleaseEscrow \/ RefundEscrow \/ Tick(Instants)

Spec == Init /\ [][Next]_vars

-----------------------------------------------------------------------------
(* escrow-contract on boundary amounts: the fee split is computed for an    *)
(* amount drawn from the boundaries of u64, and an escrow of that amount    *)
(* is created by wallet 1 (which holds u64::MAX lamports), then released    *)
(* or refunded.                                                             *)

ProbeSpan == 1

\* b - k .. b + k, as far as u64 reaches
Around(b) ==
    {Low(AddLimbs(b, U64(k), 0)) : k \in {j \in 0..ProbeSpan : Carry(AddLimbs(b, U64(j), 0)) = 0}}
    \cup
    {Low(SubLimbs(b, U64(k), 0)) : k \in {j \in 0..ProbeSpan : Carry(SubLimbs(b, U64(j), 0)) = 0}}

ProbeBases ==
    {U64(0), U64(50), U64(100), U64(10000), U64(1000000000),
     <<0, 1, 0, 0>>, <<0, 0, 1, 0>>, <<0, 0, 0, 1>>, <<0, 0, 0, 32768>>,
     DivLimbs(U64Max, 200).q,
     Low(SubLimbs(U64Max, RentExempt, 0)),
     U64Max}

ProbeAmounts == UNION {Around(b) : b \in ProbeBases}

NoValue == <<>>

InitFee ==
    /\ lamports = InitLedger(U64Max)
    /\ now = 0
    /\ escrows = [p \in EscrowPdas |-> NoAccount]
    /\ zero = [p \in ZeroPdas |-> NoAccount]
    /\ solmail = [p \in SolmailPdas |-> NoAccount]
    /\ commits = [p \in EscrowPdas \cup SolmailPdas |-> 0]
    /\ last = NoInstruction
    /\ \E amount \in ProbeAmounts :
          probe = [amount |-> amount, fee |-> NoValue, net |-> NoValue]
    /\ computations = [c \in ComputationOffsets |-> NoAccount]
    /\ events = <<>>

SplitFee ==
    /\ probe.fee = NoValue
    /\ probe' = [probe EXCEPT
                    !.fee = calculate_platform_fee([amount |-> probe.amount]),
                    !.net = calculate_recipient_amount([amount |-> probe.amount])]
    /\ UNCHANGED <<lamports, now, escrows, zero, solmail, commits, last, computations, events>>

CreateProbe ==
    \E recipient \in Keys, platform \in Keys :
        Process("create_escrow", 1, EscrowPda(MaxEmailLen, 1),
                CreateEscrowIx(1, recipient, platform, MaxEmailLen, probe.amount))

NextFee == SplitFee \/ CreateProbe \/ ReleaseEscrow \/ RefundEscrow

SpecFee == InitFee /\ [][NextFee]_vars

-----------------------------------------------------------------------------
(* Zero/programs/escrow: create_escrow, release, withhold.                  *)

\* the zeroed account that init_if_needed hands to the handler
Uninitialized == [status |-> "Uninitialized"]

\* struct CreateEscrow (Zero): init_if_needed creates the account, paid by
\* the sender, when it does not exist yet, and loads it when it does
ZeroCreateEscrowAccounts(sender, msg_id) ==
    LET pda  == ZeroPda(msg_id)
        paid == Transfer(Ledger(lamports), Wallet(sender), pda, RentExempt)
    IN  IF zero[pda] # NoAccount
        THEN [err |-> "Ok", accounts |-> zero, lamports |-> lamports]
        ELSE IF ~paid.ok THEN Fail("InsufficientFunds", zero)
        ELSE [err      |-> "Ok",
              accounts |-> [zero EXCEPT ![pda] = Uninitialized],
              lamports |-> paid.l]

\* faulty variant: an existing record is written again
zero_create_escrow_overwrites(ctx, sender, msg_id, amount, recipient) ==
    [ctx EXCEPT !.accounts[ZeroPda(msg_id)] =
        [msg_id    |-> msg_id,
         amount    |-> amount,
         sender    |-> sender,
         recipient |-> recipient,
         status    |-> "Pending",
         bump      |-> BumpOf(ZeroPda(msg_id))]]

\* the handler, on the validated context ctx
zero_create_escrow(ctx, sender, msg_id, amount, recipient) ==
    LET pda    == ZeroPda(msg_id)
        escrow == ctx.accounts[pda]
    IN  IF escrow.status # "Uninitialized" THEN ctx
        ELSE [ctx EXCEPT !.accounts[pda] =
                [msg_id    |-> msg_id,
                 amount    |-> amount,
                 sender    |-> sender,
                 recipient |-> recipient,
                 status    |-> "Pending",
                 bump      |-> BumpOf(pda)]]

\* struct ReleaseEscrow / WithholdEscrow (Zero): the escrow account must
\* exist; the other account is unchecked
ZeroEscrowAccounts(pda) ==
    IF zero[pda] = NoAccount THEN "AccountNotInitialized" ELSE "Ok"

\* faulty variant: the status written before the transfer survives its failure
release_keeps_status(pda, recipient) ==
    LET escrow == zero[pda]
        paid   == Transfer(Ledger(lamports), pda, recipient, escrow.amount)
    IN  IF escrow.status # "Pending" THEN Fail("InvalidStatus", zero)
        ELSE IF ~paid.ok
             THEN Fail("InsufficientFunds", [zero EXCEPT ![pda].status = "Released"])
        ELSE [err      |-> "Ok",
              accounts |-> [zero EXCEPT ![pda].status = "Released"],
              lamports |-> paid.l]

\* the handler: recipient is the account passed as `recipient`
release(pda, recipient) ==
    LET escrow == zero[pda]
        paid   == Transfer(Ledger(lamports), pda, recipient, escrow.amount)
    IN  IF escrow.status # "Pending" THEN Fail("InvalidStatus", zero)
        ELSE IF ~paid.ok THEN Fail("InsufficientFunds", zero)
        ELSE [err      |-> "Ok",
              accounts |-> [zero EXCEPT ![pda].status = "Released"],
              lamports |-> paid.l]

\* the handler: sender is the account passed as `sender`
withhold(pda, sender) ==
    LET escrow == zero[pda]
        paid   == Transfer(Ledger(lamports), pda, sender, escrow.amount)
    IN  IF escrow.status # "Pending" THEN Fail("InvalidStatus", zero)
        ELSE IF ~paid.ok THEN Fail("InsufficientFunds", zero)
        ELSE [err      |-> "Ok",
              accounts |-> [zero EXCEPT ![pda].status = "Withheld"],
              lamports |-> paid.l]

\* the program's entry points (mod escrow): validation, then handler
ZeroCreateEscrowIx(sender, msg_id, amount, recipient) ==
    IF ZeroCreateEscrowAccounts(sender, msg_id).err # "Ok"
    THEN ZeroCreateEscrowAccounts(sender, msg_id)
    ELSE zero_create_escrow(ZeroCreateEscrowAccounts(sender, msg_id),
                            sender, msg_id, amount, recipient)

ReleaseIx(pda, recipient) ==
    IF ZeroEscrowAccounts(pda) # "Ok"
    THEN Fail(ZeroEscrowAccounts(pda), zero)
    ELSE release(pda, recipient)

WithholdIx(pda, sender) ==
    IF ZeroEscrowAccounts(pda) # "Ok"
    THEN Fail(ZeroEscrowAccounts(pda), zero)
    ELSE withhold(pda, sender)

\* processing one Zero instruction with outcome o
ProcessZero(op, signer, o) ==
    /\ zero' = o.accounts
    /\ lamports' = o.lamports
    /\ last' = [op |-> op, err |-> o.err, signer |-> signer]
    /\ UNCHANGED <<now, escrows, solmail, commits, probe, computations, events>>

\* the amounts of Zero escrows: also one above the reserve of the account
ZeroAmounts == Amounts \cup {U64(RentLamports + 40)}

ZeroCreateEscrow ==
    \E sender \in Keys, msg_id \in ZeroMsgIds, amount \in ZeroAmounts, recipient \in Keys :
        ProcessZero("create_escrow", sender,
                    ZeroCreateEscrowIx(sender, msg_id, amount, recipient))

\* any key may submit release, naming any wallet as the recipient account
Release ==
    \E caller \in Keys, pda \in ZeroPdas, recipient \in Wallets :
        ProcessZero("release", caller, ReleaseIx(pda, recipient))

Withhold ==
    \E caller \in Keys, pda \in ZeroPdas, sender \in Wallets :
        ProcessZero("withhold", caller, WithholdIx(pda, sender))

NextZero == ZeroCreateEscrow \/ Release \/ Withhold

SpecZero == Init /\ [][NextZero]_vars

-----------------------------------------------------------------------------
(* escrow/programs/solmail_escrow: initialize_escrow, register_and_claim,   *)
(* refund_escrow.                                                           *)

FIFTEEN_DAYS == 15 * 24 * 60 * 60

\* Pubkey::default()
DefaultPubkey == 0

\* struct InitializeEscrow: `init` refuses an account that exists and makes
\* the sender pay the reserve of the new one
InitializeEscrowAccounts(sender, thread_id) ==
    LET pda  == SolmailPda(sender, thread_id)
        paid == Transfer(Ledger(lamports), Wallet(sender), pda, RentExempt)
    IN  IF solmail[pda] # NoAccount THEN Fail("AccountAlreadyInUse", solmail)
        ELSE IF ~paid.ok THEN Fail("InsufficientFunds", solmail)
        ELSE [err |-> "Ok", accounts |-> solmail, lamports |-> paid.l]

\* the handler, on the validated context ctx
initialize_escrow(ctx, sender, thread_id, amount) ==
    LET pda  == SolmailPda(sender, thread_id)
        paid == Transfer(Ledger(ctx.lamports), Wallet(sender), pda, amount)
    IN  IF ~paid.ok THEN Fail("InsufficientFunds", solmail)
        ELSE [err      |-> "Ok",
              accounts |-> [solmail EXCEPT ![pda] =
                              [sender     |-> sender,
                               receiver   |-> DefaultPubkey,
                               thread_id  |-> thread_id,
                               amount     |-> amount,
                               created_at |-> now,
                               expires_at |-> now + FIFTEEN_DAYS,
                               status     |-> "Pending",
                               bump       |-> BumpOf(pda)]],
              lamports |-> paid.l]

\* struct RegisterAndClaim / RefundEscrow: the PDA derived from the seeds
\* must hold an account of the program
SolmailEscrowAccounts(pda) ==
    IF solmail[pda] = NoAccount THEN "AccountNotInitialized" ELSE "Ok"

\* lamports = 0, assign(system_program), resize(0): the account is gone
\* when the instruction ends, whatever was written to its data
CloseAccount(accounts, l, pda) ==
    [err      |-> "Ok",
     accounts |-> [accounts EXCEPT ![pda] = NoAccount],
     lamports |-> [l EXCEPT ![pda] = Zero64],
     closed   |-> accounts[pda]]

\* faulty variant: the whole balance is paid, the reserve included
PayOut_whole(pda, to) ==
    AddLamports(SubLamports(Ledger(lamports), pda, lamports[pda]), to, lamports[pda])

\* escrow_lamports.checked_sub(rent_exempt_minimum), then the two moves
PayOut(pda, to) ==
    LET transfer_amount == Low(SubLimbs(lamports[pda], RentExempt, 0))
    IN  AddLamports(SubLamports(Ledger(lamports), pda, transfer_amount),
                    to, transfer_amount)

\* faulty variant: the funds go to the sender named by the request
register_and_claim_pays_sender(receiver, pda, sender_pubkey, thread_id) ==
    LET escrow == solmail[pda]
        paid   == PayOut(pda, Wallet(sender_pubkey))
    IN  IF escrow.status # "Pending" THEN Fail("InvalidStatus", solmail)
        ELSE IF escrow.thread_id # thread_id THEN Fail("ThreadIdMismatch", solmail)
        ELSE IF escrow.sender # sender_pubkey THEN Fail("SenderMismatch", solmail)
        ELSE IF ~Ge(lamports[pda], RentExempt) THEN Fail("InsufficientFunds", solmail)
        ELSE IF ~paid.ok THEN Fail("ArithmeticOverflow", solmail)
        ELSE CloseAccount([solmail EXCEPT ![pda].receiver = receiver,
                                          ![pda].status = "Completed"],
                          paid.l, pda)

\* faulty variant: a claim is refused once the escrow has expired
register_and_claim_until_expiry(receiver, pda, sender_pubkey, thread_id) ==
    LET escrow == solmail[pda]
        paid   == PayOut(pda, Wallet(receiver))
    IN  IF escrow.status # "Pending" THEN Fail("InvalidStatus", solmail)
        ELSE IF escrow.thread_id # thread_id THEN Fail("ThreadIdMismatch", solmail)
        ELSE IF escrow.sender # sender_pubkey THEN Fail("SenderMismatch", solmail)
        ELSE IF now >= escrow.expires_at THEN Fail("Expired", solmail)
        ELSE IF ~Ge(lamports[pda], RentExempt) THEN Fail("InsufficientFunds", solmail)
        ELSE IF ~paid.ok THEN Fail("ArithmeticOverflow", solmail)
        ELSE CloseAccount([solmail EXCEPT ![pda].receiver = receiver,
                                          ![pda].status = "Completed"],
                          paid.l, pda)

\* the handler, on a context whose escrow account is pda
register_and_claim(receiver, pda, sender_pubkey, thread_id) ==
    LET escrow == solmail[pda]
        paid   == PayOut(pda, Wallet(receiver))
    IN  IF escrow.status # "Pending" THEN Fail("InvalidStatus", solmail)
        ELSE IF escrow.thread_id # thread_id THEN Fail("ThreadIdMismatch", solmail)
        ELSE IF escrow.sender # sender_pubkey THEN Fail("SenderMismatch", solmail)
        ELSE IF ~Ge(lamports[pda], RentExempt) THEN Fail("InsufficientFunds", solmail)
        ELSE IF ~paid.ok THEN Fail("ArithmeticOverflow", solmail)
        ELSE CloseAccount([solmail EXCEPT ![pda].receiver = receiver,
                                          ![pda].status = "Completed"],
                          paid.l, pda)

\* faulty variant: the expiry is not checked
solmail_refund_escrow_no_expiry(sender, pda, thread_id) ==
    LET escrow == solmail[pda]
        paid   == PayOut(pda, Wallet(sender))
    IN  IF escrow.status # "Pending" THEN Fail("InvalidStatus", solmail)
        ELSE IF escrow.thread_id # thread_id THEN Fail("ThreadIdMismatch", solmail)
        ELSE IF escrow.sender # sender THEN Fail("SenderMismatch", solmail)
        ELSE IF ~Ge(lamports[pda], RentExempt) THEN Fail("InsufficientFunds", solmail)
        ELSE IF ~paid.ok THEN Fail("ArithmeticOverflow", solmail)
        ELSE CloseAccount([solmail EXCEPT ![pda].status = "Refunded"], paid.l, pda)

\* the handler, on a context whose escrow account is pda
solmail_refund_escrow(sender, pda, thread_id) ==
    LET escrow == solmail[pda]
        paid   == PayOut(pda, Wallet(sender))
    IN  IF escrow.status # "Pending" THEN Fail("InvalidStatus", solmail)
        ELSE IF escrow.thread_id # thread_id THEN Fail("ThreadIdMismatch", solmail)
        ELSE IF escrow.sender # sender THEN Fail("SenderMismatch", solmail)
        ELSE IF ~(now >= escrow.expires_at) THEN Fail("NotExpired", solmail)
        ELSE IF ~Ge(lamports[pda], RentExempt) THEN Fail("InsufficientFunds", solmail)
        ELSE IF ~paid.ok THEN Fail("ArithmeticOverflow", solmail)
        ELSE CloseAccount([solmail EXCEPT ![pda].status = "Refunded"], paid.l, pda)

\* the program's entry points (mod solmail_escrow): validation, then handler
InitializeEscrowIx(sender, thread_id, amount) ==
    IF InitializeEscrowAccounts(sender, thread_id).err # "Ok"
    THEN InitializeEscrowAccounts(sender, thread_id)
    ELSE initialize_escrow(InitializeEscrowAccounts(sender, thread_id),
                           sender, thread_id, amount)

RegisterAndClaimIx(receiver, sender_pubkey, thread_id) ==
    IF SolmailEscrowAccounts(SolmailPda(sender_pubkey, thread_id)) # "Ok"
    THEN Fail(SolmailEscrowAccounts(SolmailPda(sender_pubkey, thread_id)), solmail)
    ELSE register_and_claim(receiver, SolmailPda(sender_pubkey, thread_id),
                            sender_pubkey, thread_id)

SolmailRefundEscrowIx(sender, thread_id) ==
    IF SolmailEscrowAccounts(SolmailPda(sender, thread_id)) # "Ok"
    THEN Fail(SolmailEscrowAccounts(SolmailPda(sender, thread_id)), solmail)
    ELSE solmail_refund_escrow(sender, SolmailPda(sender, thread_id), thread_id)

SolmailInstants ==
    {0} \cup ((FIFTEEN_DAYS - 1)..(FIFTEEN_DAYS + ClockSlack))

\* processing one solmail_escrow instruction with outcome o
ProcessSolmail(op, signer, o) ==
    /\ solmail' = o.accounts
    /\ lamports' = o.lamports
    /\ last' = [op |-> op, err |-> o.err, signer |-> signer]
    /\ commits' = [p \in DOMAIN commits |->
                    IF p \in SolmailPdas /\ solmail[p] # NoAccount
                                         /\ o.accounts[p] = NoAccount
                    THEN commits[p] + 1 ELSE commits[p]]
    /\ UNCHANGED <<now, escrows, zero, probe, computations, events>>

InitializeEscrow ==
    \E sender \in Keys, thread_id \in ThreadIds, amount \in Amounts :
        ProcessSolmail("initialize_escrow", sender,
                       InitializeEscrowIx(sender, thread_id, amount))

RegisterAndClaim ==
    \E receiver \in Keys, sender_pubkey \in Keys, thread_id \in ThreadIds :
        ProcessSolmail("register_and_claim", receiver,
                       RegisterAndClaimIx(receiver, sender_pubkey, thread_id))

SolmailRefundEscrow ==
    \E sender \in Keys, thread_id \in ThreadIds :
        ProcessSolmail("refund_escrow", sender,
                       SolmailRefundEscrowIx(sender, thread_id))

NextSolmail ==
    InitializeEscrow \/ RegisterAndClaim \/ SolmailRefundEscrow \/ Tick(SolmailInstants)

SpecSolmail == Init /\ [][NextSolmail]_vars

-----------------------------------------------------------------------------
(* The three programs side by side on one ledger and one clock.             *)

\* creation, the deadline of solmail_escrow, the deadline of escrow-contract
PairInstants ==
    {0, FIFTEEN_DAYS, ESCROW_TIMEOUT_SECONDS, ESCROW_TIMEOUT_SECONDS + ClockSlack}

\* the escrows created side by side all hold the same amount, and are
\* created at the first instant, so that their deadlines are instants the
\* clock visits
PairAmount == U64(50)

PairCreateEscrow ==
    \E sender \in Keys, recipient \in Keys, platform \in Keys :
        /\ now = 0
        /\ Process("create_escrow", sender, EscrowPda(MaxEmailLen, sender),
                CreateEscrowIx(sender, recipient, platform, MaxEmailLen, PairAmount))

PairInitializeEscrow ==
    \E sender \in Keys, thread_id \in ThreadIds :
        /\ now = 0
        /\ ProcessSolmail("initialize_escrow", sender,
                       InitializeEscrowIx(sender, thread_id, PairAmount))

\* the two programs with a timeout: escrow-contract and solmail_escrow
NextPair ==
    \/ PairCreateEscrow \/ ReleaseEscrow \/ RefundEscrow
    \/ PairInitializeEscrow \/ RegisterAndClaim \/ SolmailRefundEscrow
    \/ Tick(PairInstants)

\* wallet 1 can fund an escrow in each program
InitPair ==
    /\ lamports = InitLedger(U64(2 * InitialFunds))
    /\ now = 0
    /\ escrows = [p \in EscrowPdas |-> NoAccount]
    /\ zero = [p \in ZeroPdas |-> NoAccount]
    /\ solmail = [p \in SolmailPdas |-> NoAccount]
    /\ commits = [p \in EscrowPdas \cup SolmailPdas |-> 0]
    /\ last = NoInstruction
    /\ probe = NoValue
    /\ computations = [c \in ComputationOffsets |-> NoAccount]
    /\ events = <<>>

SpecPair == InitPair /\ [][NextPair]_vars

-----------------------------------------------------------------------------
(* Progress: the requests that matter for an escrow running into its        *)
(* deadline.  Wallet 1 creates; the others receive, claim and refund.       *)

Others == Keys \ {1}

LiveCreateEscrow ==
    \E recipient \in Others :
        /\ now = 0
        /\ Process("create_escrow", 1, EscrowPda(MaxEmailLen, 1),
                   CreateEscrowIx(1, recipient, recipient, MaxEmailLen, PairAmount))

LiveInitializeEscrow ==
    \E thread_id \in ThreadIds :
        /\ now = 0
        /\ ProcessSolmail("initialize_escrow", 1,
                          InitializeEscrowIx(1, thread_id, PairAmount))

\* the stored recipient releases
LiveRelease ==
    \E pda \in EscrowPdas :
        /\ escrows[pda] # NoAccount
        /\ Process("release_escrow", escrows[pda].recipient, pda,
                   ReleaseEscrowIx(escrows[pda].recipient, pda, escrows[pda].platform))

LiveClaim ==
    \E receiver \in Others, thread_id \in ThreadIds :
        ProcessSolmail("register_and_claim", receiver,
                       RegisterAndClaimIx(receiver, 1, thread_id))

\* a refund request of a signer who is not the sender, naming the stored
\* sender's wallet
TimeoutRefund ==
    \E pda \in EscrowPdas :
        /\ escrows[pda] # NoAccount
        /\ \E refunder \in Keys \ {escrows[pda].sender} :
              Process("refund_escrow", refunder, pda,
                      RefundEscrowIx(refunder, pda, escrows[pda].sender))

\* a refund request of the sender
SenderRefund ==
    \E pda \in SolmailPdas :
        /\ solmail[pda] # NoAccount
        /\ ProcessSolmail("refund_escrow", solmail[pda].sender,
                          SolmailRefundEscrowIx(solmail[pda].sender,
                                                solmail[pda].thread_id))

NextLive ==
    \/ LiveCreateEscrow \/ LiveInitializeEscrow
    \/ LiveRelease \/ LiveClaim
    \/ TimeoutRefund \/ SenderRefund
    \/ Tick(PairInstants)

\* the clock has an instant left to visit
ClockRuns == \E t \in PairInstants : t > now

\* an escrow of escrow-contract is Pending past its deadline
EscrowOverdue ==
    \E pda \in EscrowPdas :
        /\ escrows[pda] # NoAccount
        /\ escrows[pda].status = "Pending"
        /\ now >= escrows[pda].expires_at

\* an escrow of solmail_escrow is past its deadline
SolmailOverdue ==
    \E pda \in SolmailPdas :
        solmail[pda] # NoAccount /\ now >= solmail[pda].expires_at

\* the clock keeps advancing, and refund requests keep being submitted
\* while an escrow is overdue
SpecLive ==
    /\ InitPair
    /\ [][NextLive]_vars
    /\ ([]<>(~ClockRuns) \/ []<><<Tick(PairInstants)>>_vars)
    /\ ([]<>(~EscrowOverdue) \/ []<><<TimeoutRefund>>_vars)
    /\ ([]<>(~SolmailOverdue) \/ []<><<SenderRefund>>_vars)

-----------------------------------------------------------------------------
(* The three programs side by side on one ledger and one clock.             *)

\* Zero escrows of an amount below and of one above the account's reserve,
\* each sender naming the next key as the recipient
AllZeroCreateEscrow ==
    \E sender \in Keys, msg_id \in ZeroMsgIds,
       amount \in {PairAmount, U64(RentLamports + 40)} :
        ProcessZero("create_escrow", sender,
                    ZeroCreateEscrowIx(sender, msg_id, amount, (sender % NumKeys) + 1))

NextAll ==
    \/ PairCreateEscrow \/ ReleaseEscrow \/ RefundEscrow
    \/ PairInitializeEscrow \/ RegisterAndClaim \/ SolmailRefundEscrow
    \/ AllZeroCreateEscrow \/ Release \/ Withhold
    \/ Tick(PairInstants)

SpecAll == Init /\ [][NextAll]_vars

-----------------------------------------------------------------------------
(* Zero/arcium_mxe: add_together, classify_email and their callbacks.       *)

\* opaque [u8; 32] values: ciphertexts, and the x25519 public key
Ciphertexts == {"ct1", "ct2"}

PubKeys == {"x25519"}

U128Max == [i \in 1..U128Limbs |-> Base - 1]

\* u128 nonces: of the requests, and of the outputs
RequestNonces == {FromNat(258, U128Limbs)}

Nonces == RequestNonces \cup {U128Max}

RECURSIVE to_le_bytes(_)
\* u128::to_le_bytes: the little-endian bytes of the value
to_le_bytes(x) ==
    IF x = <<>> THEN <<>>
    ELSE <<Head(x) % 256, Head(x) \div 256>> \o to_le_bytes(Tail(x))

\* an arcium_mxe instruction that fails changes nothing
MxeFail(err) == [err |-> err, computations |-> computations, events |-> events]

\* queue_computation (arcium program): creates the computation account at
\* the address derived from computation_offset and registers the callback
\* instruction; an offset in use is refused
queue_computation(computation_offset, ix, args, callback) ==
    IF computations[computation_offset] # NoAccount THEN MxeFail("AccountInUse")
    ELSE [err          |-> "Ok",
          computations |-> [computations EXCEPT ![computation_offset] =
                               [status   |-> "Queued",
                                ix       |-> ix,
                                args     |-> args,
                                callback |-> callback]],
          events       |-> events]

add_together(computation_offset, ciphertext_0, ciphertext_1, pub_key, nonce) ==
    queue_computation(computation_offset, "add_together",
                      << [kind |-> "ArcisPubkey", value |-> pub_key],
                         [kind |-> "PlaintextU128", value |-> nonce],
                         [kind |-> "EncryptedU8", value |-> ciphertext_0],
                         [kind |-> "EncryptedU8", value |-> ciphertext_1] >>,
                      "add_together_callback")

classify_email(computation_offset, encrypted_score, pub_key, nonce) ==
    queue_computation(computation_offset, "classify_email",
                      << [kind |-> "ArcisPubkey", value |-> pub_key],
                         [kind |-> "PlaintextU128", value |-> nonce],
                         [kind |-> "EncryptedU8", value |-> encrypted_score] >>,
                      "classify_email_callback")

\* ComputationOutputs<O>: Success(O) with O = { field_0 }, or a failure
ComputationOutputs ==
    {[tag |-> "Failure"]} \cup
    {[tag |-> "Success", field_0 |-> [nonce |-> p[1], ciphertexts |-> <<p[2]>>]] :
        p \in {<<n, IF n = U128Max THEN "ct2" ELSE "ct1">> : n \in Nonces}}

add_together_callback(output) ==
    IF output.tag # "Success" THEN MxeFail("AbortedComputation")
    ELSE LET o == output.field_0
         IN  [err          |-> "Ok",
              computations |-> computations,
              events       |-> Append(events, [name  |-> "SumEvent",
                                               sum   |-> o.ciphertexts[1],
                                               nonce |-> to_le_bytes(o.nonce)])]

\* faulty variant: an aborted computation is queued again at the free offsets
classify_email_callback_retries(output) ==
    IF output.tag # "Success"
    THEN [err          |-> "AbortedComputation",
          computations |-> [c \in ComputationOffsets |->
                               IF computations[c] = NoAccount
                               THEN [status   |-> "Queued",
                                     ix       |-> "classify_email",
                                     args     |-> <<>>,
                                     callback |-> "classify_email_callback"]
                               ELSE computations[c]],
          events       |-> events]
    ELSE LET o == output.field_0
         IN  [err          |-> "Ok",
              computations |-> computations,
              events       |-> Append(events, [name  |-> "ScoreEvent",
                                               score |-> o.ciphertexts[1],
                                               nonce |-> to_le_bytes(o.nonce)])]

classify_email_callback(output) ==
    IF output.tag # "Success" THEN MxeFail("AbortedComputation")
    ELSE LET o == output.field_0
         IN  [err          |-> "Ok",
              computations |-> computations,
              events       |-> Append(events, [name  |-> "ScoreEvent",
                                               score |-> o.ciphertexts[1],
                                               nonce |-> to_le_bytes(o.nonce)])]

\* the number of events the log keeps
EventLimit == 2

\* processing one arcium_mxe instruction with outcome o
ProcessMxe(op, signer, o) ==
    /\ computations' = o.computations
    /\ events' = o.events
    /\ last' = [op |-> op, err |-> o.err, signer |-> signer]
    /\ UNCHANGED <<lamports, now, escrows, zero, solmail, commits, probe>>

AddTogether ==
    \E payer \in Keys, computation_offset \in ComputationOffsets,
       ciphertext_0 \in Ciphertexts, ciphertext_1 \in Ciphertexts,
       pub_key \in PubKeys, nonce \in RequestNonces :
        ProcessMxe("add_together", payer,
                   add_together(computation_offset, ciphertext_0, ciphertext_1,
                                pub_key, nonce))

ClassifyEmail ==
    \E payer \in Keys, computation_offset \in ComputationOffsets,
       encrypted_score \in Ciphertexts, pub_key \in PubKeys, nonce \in RequestNonces :
        ProcessMxe("classify_email", payer,
                   classify_email(computation_offset, encrypted_score, pub_key, nonce))

\* the cluster delivers the output of a queued computation to its callback;
\* a callback that succeeded finalizes the computation, one that failed
\* may leave it with the cluster
Delivered(o, computation_offset, finalized) ==
    [o EXCEPT !.computations =
        IF finalized THEN [@ EXCEPT ![computation_offset] = NoAccount] ELSE @]

AddTogetherCallback ==
    \E computation_offset \in ComputationOffsets, output \in ComputationOutputs,
       finalized \in BOOLEAN :
        /\ computations[computation_offset] # NoAccount
        /\ computations[computation_offset].callback = "add_together_callback"
        /\ Len(events) < EventLimit
        /\ add_together_callback(output).err = "Ok" => finalized
        /\ ProcessMxe("add_together_callback", 0,
                      Delivered(add_together_callback(output), computation_offset, finalized))

ClassifyEmailCallback ==
    \E computation_offset \in ComputationOffsets, output \in ComputationOutputs,
       finalized \in BOOLEAN :
        /\ computations[computation_offset] # NoAccount
        /\ computations[computation_offset].callback = "classify_email_callback"
        /\ Len(events) < EventLimit
        /\ classify_email_callback(output).err = "Ok" => finalized
        /\ ProcessMxe("classify_email_callback", 0,
                      Delivered(classify_email_callback(output), computation_offset, finalized))

NextMxe == AddTogether \/ ClassifyEmail \/ AddTogetherCallback \/ ClassifyEmailCallback

SpecMxe == Init /\ [][NextMxe]_vars

-----------------------------------------------------------------------------
(* escrow-contract: properties.  A handler call is a call on a context that *)
(* passed the account validation of its Accounts struct; a request is an    *)
(* instruction as submitted, validation included.                           *)

Existing == {pda \in EscrowPdas : escrows[pda] # NoAccount}

Pending == {pda \in Existing : escrows[pda].status = "Pending"}

Terminal == {pda \in Existing : escrows[pda].status \in {"Released", "Refunded"}}

\* outcome o failed and left the escrow accounts and the ledger as they are
Rejected(o) == o.err # "Ok" /\ o.accounts = escrows /\ o.lamports = lamports

RejectedWith(o, err) == o.err = err /\ o.accounts = escrows /\ o.lamports = lamports

C1_AllCallsFail ==
    \A pda \in Terminal, caller \in Keys :
        /\ RejectedWith(release_escrow(caller, pda, escrows[pda].platform),
                        "EscrowNotPending")
        /\ RejectedWith(refund_escrow(caller, pda, escrows[pda].sender),
                        "EscrowNotPending")
        /\ \A account \in Keys :
              /\ Rejected(ReleaseEscrowIx(caller, pda, account))
              /\ Rejected(RefundEscrowIx(caller, pda, account))

C1_Frozen == \A pda \in Terminal : escrows'[pda] = escrows[pda]

\* C1: once an escrow of escrow-contract is Released or Refunded, every
\* release_escrow and refund_escrow call on it, by any caller at any clock
\* value, fails with EscrowNotPending and changes nothing (a request whose
\* platform / sender account fails validation is rejected as well), and no
\* step of the program changes the record again.
C1_MonotonicTerminality == [](C1_AllCallsFail) /\ [][C1_Frozen]_vars

C1_Witness ==
    /\ last.op \in {"release_escrow", "refund_escrow"}
    /\ last.err = "EscrowNotPending"
    /\ Terminal # {}

\* requests that never reach a handler
ValidationErrors == {"AccountNotInitialized", "InvalidPlatform"}

\* the custody account holds the reserve, and the amount while Pending
C2_CustodyDebitedOnce ==
    \A pda \in Existing :
        /\ commits[pda] <= 1
        /\ commits[pda] = 1 <=> pda \in Terminal
        /\ lamports[pda] \o <<0>> =
              IF pda \in Pending
              THEN AddLimbs(RentExempt, escrows[pda].amount, 0)
              ELSE RentExempt \o <<0>>

C2_LosersRejected ==
    \A pda \in Terminal, caller \in Keys, account \in Keys :
        /\ Rejected(ReleaseEscrowIx(caller, pda, account))
        /\ Rejected(RefundEscrowIx(caller, pda, account))
        /\ account = escrows[pda].platform =>
              ReleaseEscrowIx(caller, pda, account).err = "EscrowNotPending"
        /\ account = escrows[pda].sender =>
              RefundEscrowIx(caller, pda, account).err = "EscrowNotPending"

\* C2 (amended): in every interleaving of release_escrow and refund_escrow
\* requests against one escrow at most one request commits; every request
\* processed after it fails with EscrowNotPending and changes nothing; the
\* custody account is debited by the amount exactly once, by the request
\* that commits.  (A request processed while the escrow is still Pending
\* fails, when it fails, with the error of its own guard.)
C2_AtMostOneCommit == C2_CustodyDebitedOnce /\ C2_LosersRejected

\* C2 as claimed: every request that does not commit fails with
\* EscrowNotPending.
C2_EveryOtherRequestNotPending ==
    /\ C2_CustodyDebitedOnce
    /\ (/\ last.op \in {"release_escrow", "refund_escrow"}
        /\ last.err \notin {"Ok"} \cup ValidationErrors \cup {"InvalidSender"})
       => last.err = "EscrowNotPending"

C2_Witness ==
    \E pda \in Terminal :
        /\ escrows[pda].status = "Refunded"
        /\ commits[pda] = 1
        /\ last.op = "release_escrow"
        /\ last.signer = escrows[pda].recipient
        /\ last.err = "EscrowNotPending"

\* C5: release_escrow signed by anyone but the stored recipient fails and
\* changes neither an escrow nor a balance; on a Pending escrow before its
\* deadline the error is InvalidRecipient.
C5_OnlyRecipientReleases ==
    \A pda \in Existing, caller \in Keys :
        caller # escrows[pda].recipient =>
            /\ Rejected(release_escrow(caller, pda, escrows[pda].platform))
            /\ (pda \in Pending /\ now < escrows[pda].expires_at) =>
                  release_escrow(caller, pda, escrows[pda].platform).err
                      = "InvalidRecipient"
            /\ \A account \in Keys : Rejected(ReleaseEscrowIx(caller, pda, account))

C5_Witness ==
    /\ last.op = "release_escrow"
    /\ last.err = "InvalidRecipient"
    /\ \E pda \in Pending : last.signer # escrows[pda].recipient

\* the ledger l2 is l1 after moving amount from account a to account b
Moved(l1, l2, a, b, amount) ==
    /\ AddLimbs(l2[a], amount, 0) = l1[a] \o <<0>>
    /\ AddLimbs(l1[b], amount, 0) = l2[b] \o <<0>>
    /\ \A c \in Accounts \ {a, b} : l2[c] = l1[c]

\* C7: refund_escrow on a Pending escrow succeeds exactly when the signer
\* is the stored sender or now >= expires_at = created_at + 30 * 86400;
\* otherwise it fails with EscrowTimeoutNotReached and changes nothing;
\* a success moves the full amount from custody to the stored sender and
\* sets the status to Refunded.
C7_RefundGuard ==
    \A pda \in Pending, refunder \in Keys :
        LET e       == escrows[pda]
            o       == refund_escrow(refunder, pda, e.sender)
            allowed == refunder = e.sender \/ now >= e.expires_at
        IN  /\ e.expires_at = e.created_at + 30 * 86400
            /\ o.err = "Ok" <=> allowed
            /\ ~allowed => RejectedWith(o, "EscrowTimeoutNotReached")
            /\ allowed =>
                  /\ o.accounts = [escrows EXCEPT ![pda].status = "Refunded"]
                  /\ Moved(lamports, o.lamports, pda, Wallet(e.sender), e.amount)

C7_Witness ==
    \E pda \in Terminal :
        /\ escrows[pda].status = "Refunded"
        /\ now = escrows[pda].created_at + 30 * 86400
        /\ last.op = "refund_escrow"
        /\ last.err = "Ok"
        /\ last.signer # escrows[pda].sender

\* C8: is_expired is false one second before expires_at and true at it;
\* release_escrow by the stored recipient on a Pending escrow succeeds at
\* every now < expires_at (now = expires_at - 1 included) and fails with
\* EscrowExpired, changing nothing, at every now >= expires_at.
C8_ExpiryBoundary ==
    \A pda \in Pending :
        LET e == escrows[pda]
            o == release_escrow(e.recipient, pda, e.platform)
        IN  /\ ~is_expired(e, e.expires_at - 1)
            /\ is_expired(e, e.expires_at)
            /\ now < e.expires_at =>
                  /\ o.err = "Ok"
                  /\ o.accounts = [escrows EXCEPT ![pda].status = "Released"]
            /\ now >= e.expires_at => RejectedWith(o, "EscrowExpired")

C8_Witness ==
    \E pda \in Pending :
        /\ now = escrows[pda].expires_at
        /\ last.op = "release_escrow"
        /\ last.signer = escrows[pda].recipient
        /\ last.err = "EscrowExpired"

\* C9 as claimed: create_escrow with amount == 0 fails with InvalidAmount,
\* and with an email_id of more than 256 bytes with InvalidEmailId, before
\* any record is written or any balance moves.
C9_ZeroAmountInvalidAmount ==
    \A sender \in Keys, recipient \in Keys, platform \in Keys, email_id \in EmailIds :
        CreateEscrowAccounts(sender, email_id) = "Ok" =>
            /\ email_id <= 256 =>
                  RejectedWith(create_escrow(sender, recipient, platform,
                                             email_id, Zero64), "InvalidAmount")
            /\ email_id > 256 =>
                  \A amount \in Amounts :
                      RejectedWith(create_escrow(sender, recipient, platform,
                                                 email_id, amount), "InvalidEmailId")


\* x + y = z exactly, with no carry out of u64
Sums(x, y, z) == AddLimbs(x, y, 0) = z \o <<0>>

\* what a release credits to wallet k
Credit(e, k) ==
    LET fee == IF k = e.platform THEN calculate_platform_fee(e) ELSE Zero64
        net == IF k = e.recipient THEN calculate_recipient_amount(e) ELSE Zero64
    IN  AddLimbs(fee, net, 0)

C3_SplitExact ==
    probe.fee # NoValue =>
        /\ Ge(probe.amount, probe.fee)
        /\ Sums(probe.fee, probe.net, probe.amount)

C3_ReleaseConserves ==
    \A pda \in Pending :
        LET e == escrows[pda]
            o == release_escrow(e.recipient, pda, e.platform)
        IN  /\ Gt(e.amount, Zero64)
            /\ o.err = "Ok" =>
                /\ Ge(e.amount, calculate_platform_fee(e))
                /\ Sums(calculate_platform_fee(e), calculate_recipient_amount(e), e.amount)
                /\ Sums(o.lamports[pda], e.amount, lamports[pda])
                /\ \A k \in Keys :
                       AddLimbs(lamports[Wallet(k)], Low(Credit(e, k)), 0)
                           = o.lamports[Wallet(k)] \o <<0>>
                /\ Carry(Credit(e, e.recipient)) = 0
                /\ \A a \in Accounts \ (Wallets \cup {pda}) : o.lamports[a] = lamports[a]

C3_RefundConserves ==
    \A pda \in Pending, refunder \in Keys :
        LET e == escrows[pda]
            o == refund_escrow(refunder, pda, e.sender)
        IN  o.err = "Ok" => Moved(lamports, o.lamports, pda, Wallet(e.sender), e.amount)

\* C3: a successful release_escrow debits custody by exactly the stored
\* amount and credits platform_fee to the platform and recipient_amount to
\* the recipient, where platform_fee + recipient_amount = amount with no
\* underflow in amount - fee, for every amount up to u64::MAX; a successful
\* refund_escrow moves exactly amount from custody to the sender, no fee.
C3_Conservation == C3_SplitExact /\ C3_ReleaseConserves /\ C3_RefundConserves

\* an escrow of at least 2^63 lamports has been released to a recipient
\* who is not the platform, and one of the same kind could be refunded
C3_Witness ==
    /\ last.op = "release_escrow" /\ last.err = "Ok"
    /\ probe.fee # NoValue
    /\ \E pda \in Terminal :
          LET e == escrows[pda]
          IN  /\ e.status = "Released"
              /\ e.platform # e.recipient
              /\ Ge(e.amount, <<0, 0, 0, 32768>>)
              /\ lamports[Wallet(e.recipient)] = calculate_recipient_amount(e)

\* 10000 * f <= 200 * a < 10000 * (f + 1), in exact arithmetic
IsFloorOfFee(a, f) ==
    LET product == Widen(MulLimbs(a, 200, 0), U64Limbs + 2)
        lower   == Widen(MulLimbs(f, 10000, 0), U64Limbs + 2)
        upper   == MulLimbs(AddLimbs(f, U64(1), 0), 10000, 0)
    IN  Ge(product, lower) /\ Gt(upper, product)

C4_FeeIsFloor ==
    probe.fee # NoValue =>
        /\ Len(probe.fee) = U64Limbs
        /\ IsFloorOfFee(probe.amount, probe.fee)

C4_Scenario ==
    \A pda \in Pending :
        LET e == escrows[pda]
            o == ReleaseEscrowIx(e.recipient, pda, e.platform)
        IN  /\ IsFloorOfFee(e.amount, calculate_platform_fee(e))
            /\ e.amount = U64(1000000000) =>
                /\ o.err = "Ok"
                /\ o.accounts[pda].status = "Released"
                /\ calculate_platform_fee(e) = U64(20000000)
                /\ calculate_recipient_amount(e) = U64(980000000)
                /\ e.platform # e.recipient =>
                     /\ Sums(lamports[Wallet(e.platform)], U64(20000000),
                             o.lamports[Wallet(e.platform)])
                     /\ Sums(lamports[Wallet(e.recipient)], U64(980000000),
                             o.lamports[Wallet(e.recipient)])

\* C4: calculate_platform_fee returns floor(amount * 200 / 10000) for every
\* u64 amount, u64::MAX included, and the result fits in 64 bits; releasing
\* an escrow of 1_000_000_000 pays fee 20_000_000 and net 980_000_000 and
\* leaves the escrow Released.
C4_PlatformFeeIsFloor == C4_FeeIsFloor /\ C4_Scenario

\* the escrow of 1_000_000_000 has been released and the fee of the same
\* amount computed
C4_Witness ==
    /\ probe.amount = U64(1000000000)
    /\ probe.fee = U64(20000000)
    /\ probe.net = U64(980000000)
    /\ last.op = "release_escrow" /\ last.err = "Ok"
    /\ \E pda \in Terminal :
          /\ escrows[pda].status = "Released"
          /\ escrows[pda].platform # escrows[pda].recipient
          /\ lamports[Wallet(escrows[pda].recipient)] = U64(980000000)

\* the fee of u64::MAX has been computed
C4_WitnessMax == probe.amount = U64Max /\ probe.fee # NoValue

-----------------------------------------------------------------------------
(* Zero escrow and solmail_escrow: properties.                              *)

ZeroPending == {pda \in ZeroPdas : zero[pda].status = "Pending"}

\* C6: release of a Pending Zero escrow submitted by anyone but the stored
\* recipient, or naming a recipient account other than the stored
\* recipient's, fails and moves no lamports: the escrow's funds can only
\* go to escrow.recipient.
C6_ReleaseOnlyToStoredRecipient ==
    \A pda \in ZeroPending, caller \in Keys, recipient \in Wallets :
        LET e == zero[pda]
            o == ReleaseIx(pda, recipient)
        IN  (caller # e.recipient \/ recipient # Wallet(e.recipient)) =>
                /\ o.err # "Ok"
                /\ o.accounts = zero
                /\ o.lamports = lamports

\* a release has paid a wallet that is not the stored recipient's
C6_PaidToStranger ==
    /\ last.op = "release" /\ last.err = "Ok"
    /\ \E pda \in ZeroPdas :
          /\ zero[pda].status = "Released"
          /\ last.signer # zero[pda].recipient
          /\ lamports[Wallet(zero[pda].recipient)] = Zero64
          /\ \E k \in Keys \ {1} : lamports[Wallet(k)] = U64(50)

\* C10: initialize_escrow (solmail_escrow) and create_escrow (Zero) reject
\* a request with amount 0, and every stored record of either program has
\* amount > 0.
C10_ZeroAmountRejected ==
    /\ \A sender \in Keys, thread_id \in ThreadIds :
          InitializeEscrowIx(sender, thread_id, Zero64).err # "Ok"
    /\ \A sender \in Keys, msg_id \in ZeroMsgIds, recipient \in Keys :
          ZeroCreateEscrowIx(sender, msg_id, Zero64, recipient).accounts = zero
    /\ \A pda \in SolmailPdas :
          solmail[pda] # NoAccount => Gt(solmail[pda].amount, Zero64)
    /\ \A pda \in ZeroPdas :
          zero[pda] # NoAccount => Gt(zero[pda].amount, Zero64)

\* a record with amount 0 is stored by solmail_escrow
C10_SolmailStoresZero ==
    \E pda \in SolmailPdas :
        solmail[pda] # NoAccount /\ solmail[pda].amount = Zero64

\* a record with amount 0 is stored by the Zero escrow
C10_ZeroStoresZero ==
    \E pda \in ZeroPdas : zero[pda] # NoAccount /\ zero[pda].amount = Zero64

ZeroExisting == {pda \in ZeroPdas : zero[pda] # NoAccount}

\* C11: a Pending Zero escrow holds its amount above the reserve of its
\* account, and the create_escrow that makes the record debits the sender
\* by the amount (and the reserve).
C11_CustodyFunded ==
    /\ \A pda \in ZeroPending :
          Sums(RentExempt, zero[pda].amount, lamports[pda])
    /\ \A sender \in Keys, msg_id \in ZeroMsgIds, amount \in ZeroAmounts, recipient \in Keys :
          LET o == ZeroCreateEscrowIx(sender, msg_id, amount, recipient)
          IN  (zero[ZeroPda(msg_id)] = NoAccount /\ o.err = "Ok") =>
                  Sums(o.lamports[ZeroPda(msg_id)], Zero64,
                       Low(AddLimbs(RentExempt, amount, 0)))

\* a Pending Zero escrow whose amount is not in custody: release fails for
\* want of lamports
C11_UnfundedRelease ==
    /\ last.op = "release" /\ last.err = "InsufficientFunds"
    /\ \E pda \in ZeroPending :
          /\ Gt(zero[pda].amount, lamports[pda])
          /\ lamports[pda] = RentExempt

\* C12: create_escrow for a msg_id whose record exists, in any status,
\* by any sender and with any amount and recipient, returns success and
\* changes no record and no balance.
C12_CreateIdempotent ==
    \A pda \in ZeroExisting, sender \in Keys, amount \in ZeroAmounts, recipient \in Keys :
        LET o == ZeroCreateEscrowIx(sender, zero[pda].msg_id, amount, recipient)
        IN  /\ pda = ZeroPda(zero[pda].msg_id)
            /\ o.err = "Ok"
            /\ o.accounts = zero
            /\ o.lamports = lamports

\* a create_escrow has succeeded for a signer who owns no record, while a
\* record is already Released or Withheld
C12_Witness ==
    /\ last.op = "create_escrow" /\ last.err = "Ok"
    /\ \A pda \in ZeroExisting : zero[pda].sender # last.signer
    /\ \E pda \in ZeroExisting : zero[pda].status \in {"Released", "Withheld"}

\* C14: a Zero create_escrow that reports success leaves a record of the
\* requesting sender under the requested msg_id: requests of two senders
\* with one msg_id get two records, and neither is answered with the
\* other's record.
C14_KeyedBySender ==
    \A sender \in Keys, msg_id \in ZeroMsgIds, amount \in ZeroAmounts, recipient \in Keys :
        LET o == ZeroCreateEscrowIx(sender, msg_id, amount, recipient)
        IN  o.err = "Ok" => o.accounts[ZeroPda(msg_id)].sender = sender

\* a second sender's create_escrow was answered with success although the
\* only record of the msg_id is the first sender's, still Pending
C14_Absorbed ==
    /\ last.op = "create_escrow" /\ last.err = "Ok"
    /\ ZeroExisting # {}
    /\ \A pda \in ZeroExisting :
          zero[pda].sender # last.signer /\ zero[pda].status = "Pending"

SolmailExisting == {pda \in SolmailPdas : solmail[pda] # NoAccount}

\* outcome o of a solmail_escrow instruction failed and changed nothing
SolmailRejected(o) == o.err # "Ok" /\ o.accounts = solmail /\ o.lamports = lamports

SolmailRejectedWith(o, err) == o.err = err /\ o.accounts = solmail /\ o.lamports = lamports

\* C15: an id (sender, thread_id) of solmail_escrow that has been claimed
\* or refunded never holds a Pending escrow again and is never paid out a
\* second time.
C15_SolmailTerminalPerId ==
    \A pda \in SolmailPdas :
        /\ commits[pda] <= 1
        /\ commits[pda] = 1 => solmail[pda] = NoAccount

\* an id has been paid out twice
C15_SecondDisbursement == \E pda \in SolmailPdas : commits[pda] = 2

\* C16: register_and_claim succeeds only on a Pending escrow with the
\* stored thread_id and the stored sender; otherwise it fails with
\* InvalidStatus, ThreadIdMismatch or SenderMismatch and changes nothing;
\* a success writes receiver = the signing caller and status = Completed
\* and credits the escrowed lamports to that caller's wallet and to no
\* other account.
C16_ClaimBindsCaller ==
    \A pda \in SolmailExisting, receiver \in Keys,
       sender_pubkey \in Keys, thread_id \in ThreadIds :
        LET e        == solmail[pda]
            o        == register_and_claim(receiver, pda, sender_pubkey, thread_id)
            escrowed == Low(SubLimbs(lamports[pda], RentExempt, 0))
        IN  /\ o.err = "Ok" <=>
                  /\ e.status = "Pending"
                  /\ e.thread_id = thread_id
                  /\ e.sender = sender_pubkey
            /\ e.status # "Pending" => SolmailRejectedWith(o, "InvalidStatus")
            /\ (e.status = "Pending" /\ e.thread_id # thread_id) =>
                  SolmailRejectedWith(o, "ThreadIdMismatch")
            /\ (e.status = "Pending" /\ e.thread_id = thread_id
                                     /\ e.sender # sender_pubkey) =>
                  SolmailRejectedWith(o, "SenderMismatch")
            /\ o.err = "Ok" =>
                  /\ o.closed = [e EXCEPT !.receiver = receiver, !.status = "Completed"]
                  /\ escrowed = e.amount
                  /\ Sums(lamports[Wallet(receiver)], escrowed, o.lamports[Wallet(receiver)])
                  /\ \A a \in Accounts \ {pda, Wallet(receiver)} :
                        o.lamports[a] = lamports[a]

\* a caller who is not the sender has claimed an escrow of 50 lamports
C16_Witness ==
    /\ last.op = "register_and_claim" /\ last.err = "Ok"
    /\ last.signer # 1
    /\ lamports[Wallet(last.signer)] = U64(50)
    /\ \E pda \in SolmailPdas : commits[pda] = 1 /\ solmail[pda] = NoAccount

\* C17: refund_escrow of solmail_escrow fails with NotExpired at every
\* now < expires_at = created_at + 15 * 86400, fails for every signer who
\* is not the stored sender at every instant, and a failure changes
\* nothing; a request never touches an escrow of another sender.
C17_RefundBySenderAfterExpiry ==
    /\ \A pda \in SolmailExisting, signer \in Keys, thread_id \in ThreadIds :
          LET e == solmail[pda]
              o == solmail_refund_escrow(signer, pda, thread_id)
          IN  /\ e.expires_at = e.created_at + 15 * 86400
              /\ now < e.expires_at => SolmailRejected(o)
              /\ (now < e.expires_at /\ signer = e.sender /\ thread_id = e.thread_id)
                    => SolmailRejectedWith(o, "NotExpired")
              /\ signer # e.sender => SolmailRejected(o)
              /\ o.err # "Ok" => SolmailRejected(o)
    /\ \A signer \in Keys, thread_id \in ThreadIds :
          LET o == SolmailRefundEscrowIx(signer, thread_id)
          IN  /\ o.err # "Ok" => SolmailRejected(o)
              /\ \A pda \in SolmailExisting :
                    \/ solmail[pda].sender = signer /\ now >= solmail[pda].expires_at
                    \/ o.accounts[pda] = solmail[pda] /\ o.lamports[pda] = lamports[pda]

\* the sender's refund was refused one second before the deadline
C17_Witness ==
    /\ last.op = "refund_escrow" /\ last.err = "NotExpired"
    /\ \E pda \in SolmailExisting :
          /\ solmail[pda].sender = last.signer
          /\ now = solmail[pda].expires_at - 1

\* C18: a successful register_and_claim moves the whole balance of the
\* escrow account, amount and reserve, to the receiver, and a successful
\* refund_escrow to the sender; no other balance changes, so the sum of
\* all balances is kept.
C18_ReserveReturned ==
    \A pda \in SolmailExisting, receiver \in Keys :
        LET e       == solmail[pda]
            claimed == RegisterAndClaimIx(receiver, e.sender, e.thread_id)
            refund  == SolmailRefundEscrowIx(e.sender, e.thread_id)
        IN  /\ claimed.err = "Ok" =>
                  Moved(lamports, claimed.lamports, pda, Wallet(receiver), lamports[pda])
            /\ refund.err = "Ok" =>
                  Moved(lamports, refund.lamports, pda, Wallet(e.sender), lamports[pda])

\* after a claim no escrow account holds anything and the wallets hold the
\* initial funds less the reserve
C18_ReserveBurned ==
    /\ last.op = "register_and_claim" /\ last.err = "Ok"
    /\ \A pda \in SolmailPdas : lamports[pda] = Zero64
    /\ Sums(lamports[Wallet(1)], lamports[Wallet(2)], U64(InitialFunds - RentLamports))

C13_EscrowContract ==
    \A pda \in Existing, recipient \in Keys, platform \in Keys, amount \in Amounts :
        LET e == escrows[pda]
            o == CreateEscrowIx(e.sender, recipient, platform, e.email_id, amount)
        IN  /\ pda = EscrowPda(e.email_id, e.sender)
            /\ RejectedWith(o, "AccountAlreadyInUse")
            /\ lamports[pda] \o <<0>> =
                  IF pda \in Pending THEN AddLimbs(RentExempt, e.amount, 0)
                                     ELSE RentExempt \o <<0>>

C13_Solmail ==
    \A pda \in SolmailExisting, amount \in Amounts :
        LET e == solmail[pda]
            o == InitializeEscrowIx(e.sender, e.thread_id, amount)
        IN  /\ pda = SolmailPda(e.sender, e.thread_id)
            /\ SolmailRejectedWith(o, "AccountAlreadyInUse")
            /\ Sums(RentExempt, e.amount, lamports[pda])

\* C13: in escrow-contract and in solmail_escrow a creation request for an
\* id whose record exists fails (the account is already in use) and leaves
\* every record and every balance as it is; the record of an id is the
\* one first created, and its custody account holds what that creation put
\* there (reserve and amount; the reserve alone once escrow-contract has
\* paid out).
C13_OneRecordPerId == C13_EscrowContract /\ C13_Solmail

\* a creation was refused because the account is in use, while an escrow
\* of each program exists
C13_Witness ==
    /\ last.op \in {"create_escrow", "initialize_escrow"}
    /\ last.err = "AccountAlreadyInUse"
    /\ Existing # {}
    /\ SolmailExisting # {}

C19_RefundEnabled ==
    /\ \A pda \in Pending, refunder \in Keys :
          LET e == escrows[pda]
              o == RefundEscrowIx(refunder, pda, e.sender)
          IN  now >= e.expires_at =>
                  /\ o.err = "Ok"
                  /\ o.accounts = [escrows EXCEPT ![pda].status = "Refunded"]
                  /\ Moved(lamports, o.lamports, pda, Wallet(e.sender), e.amount)
    /\ \A pda \in SolmailExisting :
          LET e == solmail[pda]
              o == SolmailRefundEscrowIx(e.sender, e.thread_id)
          IN  now >= e.expires_at =>
                  /\ o.err = "Ok"
                  /\ o.accounts = [solmail EXCEPT ![pda] = NoAccount]
                  /\ Sums(lamports[Wallet(e.sender)], e.amount,
                          o.lamports[Wallet(e.sender)])

C19_EventuallyTerminal ==
    /\ \A pda \in EscrowPdas : (pda \in Pending) ~> (pda \in Terminal)
    /\ \A pda \in SolmailPdas : (solmail[pda] # NoAccount) ~> (solmail[pda] = NoAccount)

\* C19: a Pending escrow of escrow-contract whose deadline has passed can
\* be refunded in full to its sender by any signer, and one of
\* solmail_escrow by its sender, whatever the recipient does; when the
\* clock keeps advancing and refund requests keep being submitted, every
\* Pending escrow reaches a terminal status.
C19_NoLockUp == [](C19_RefundEnabled) /\ C19_EventuallyTerminal

\* at the deadline of escrow-contract a signer who is not the sender has
\* refunded an escrow, and an escrow of solmail_escrow has been paid out
C19_Witness ==
    /\ last.op = "refund_escrow" /\ last.err = "Ok"
    /\ now >= ESCROW_TIMEOUT_SECONDS
    /\ \E pda \in Terminal :
          /\ escrows[pda].status = "Refunded"
          /\ escrows[pda].sender # last.signer
    /\ \E pda \in SolmailPdas : commits[pda] >= 1

\* outcome o, over the accounts `accounts` of its program, changed nothing
\* if it failed
Atomic(o, accounts) == o.err # "Ok" => (o.accounts = accounts /\ o.lamports = lamports)

C20_EscrowContract ==
    /\ \A sender \in Keys, recipient \in Keys, platform \in Keys,
          email_id \in EmailIds, amount \in Amounts :
          Atomic(CreateEscrowIx(sender, recipient, platform, email_id, amount), escrows)
    /\ \A caller \in Keys, pda \in EscrowPdas, account \in Keys :
          /\ Atomic(ReleaseEscrowIx(caller, pda, account), escrows)
          /\ Atomic(RefundEscrowIx(caller, pda, account), escrows)

C20_Zero ==
    /\ \A sender \in Keys, msg_id \in ZeroMsgIds, amount \in ZeroAmounts, recipient \in Keys :
          Atomic(ZeroCreateEscrowIx(sender, msg_id, amount, recipient), zero)
    /\ \A pda \in ZeroPdas, account \in Wallets :
          /\ Atomic(ReleaseIx(pda, account), zero)
          /\ Atomic(WithholdIx(pda, account), zero)
    /\ \A pda \in ZeroPending, account \in Wallets :
          Gt(zero[pda].amount, lamports[pda]) =>
              ReleaseIx(pda, account).err = "InsufficientFunds"

C20_Solmail ==
    /\ \A sender \in Keys, thread_id \in ThreadIds, amount \in Amounts :
          Atomic(InitializeEscrowIx(sender, thread_id, amount), solmail)
    /\ \A signer \in Keys, sender \in Keys, thread_id \in ThreadIds :
          /\ Atomic(RegisterAndClaimIx(signer, sender, thread_id), solmail)
          /\ Atomic(SolmailRefundEscrowIx(signer, thread_id), solmail)
    /\ \A pda \in SolmailExisting :
          solmail[pda].status = "Pending" /\ solmail[pda].receiver = DefaultPubkey

\* a step whose instruction failed changed no record and no balance
C20_FailedStep ==
    last'.err # "Ok" => UNCHANGED <<lamports, escrows, zero, solmail, commits>>

C21_WithholdOnlyToStoredSender ==
    \A pda \in ZeroPending, caller \in Keys, sender \in Wallets :
        LET e == zero[pda]
            o == WithholdIx(pda, sender)
        IN  IF caller # e.sender \/ sender # Wallet(e.sender)
            THEN o.err # "Ok" /\ o.accounts = zero /\ o.lamports = lamports
            ELSE o.err = "Ok" =>
                    /\ o.accounts = [zero EXCEPT ![pda].status = "Withheld"]
                    /\ Moved(lamports, o.lamports, pda, Wallet(e.sender), e.amount)

\* a withhold submitted by another key has paid a wallet that is not the
\* stored sender's
C21_WithheldToStranger ==
    /\ last.op = "withhold" /\ last.err = "Ok"
    /\ \E pda \in ZeroPdas :
          /\ zero[pda].status = "Withheld"
          /\ last.signer # zero[pda].sender
          /\ \E k \in Keys \ {zero[pda].sender} : lamports[Wallet(k)] = zero[pda].amount
          /\ lamports[pda] = U64(RentLamports - 50)

\* the bytes b are the little-endian bytes of the u128 value n
IsLeBytesOf(b, n) ==
    /\ Len(b) = 2 * U128Limbs
    /\ \A i \in 1..Len(b) : b[i] \in 0..255
    /\ \A i \in 1..U128Limbs : b[2 * i - 1] + 256 * b[2 * i] = n[i]

\* outcome o of a callback on `output` is the one the claim describes: for
\* a Success exactly one event, carrying the output's ciphertext and nonce
\* under `field`, is appended; otherwise the error and nothing else
CallbackOutcome(o, output, name, field) ==
    /\ o.computations = computations
    /\ IF output.tag = "Success"
       THEN /\ o.err = "Ok"
            /\ Len(o.events) = Len(events) + 1
            /\ SubSeq(o.events, 1, Len(events)) = events
            /\ LET ev == o.events[Len(o.events)]
               IN  /\ ev.name = name
                   /\ ev[field] = output.field_0.ciphertexts[1]
                   /\ IsLeBytesOf(ev.nonce, output.field_0.nonce)
       ELSE /\ o.err = "AbortedComputation"
            /\ o.events = events

C22_Callbacks ==
    \A output \in ComputationOutputs :
        /\ CallbackOutcome(classify_email_callback(output), output, "ScoreEvent", "score")
        /\ CallbackOutcome(add_together_callback(output), output, "SumEvent", "sum")

MxeCallbacks == {"classify_email_callback", "add_together_callback"}

\* a callback step queues nothing, an aborted one emits nothing, and only
\* a successful callback emits
C22_CallbackStep ==
    /\ last'.op \in MxeCallbacks =>
          \A c \in ComputationOffsets : computations'[c] \in {computations[c], NoAccount}
    /\ last'.err = "AbortedComputation" => events' = events
    /\ events' # events => last'.op \in MxeCallbacks /\ last'.err = "Ok"

\* C22: a callback of arcium_mxe whose output is not Success returns
\* AbortedComputation, emits no event and queues no computation; an event
\* carrying the output's ciphertext and nonce is emitted only for a
\* Success output.
C22_AbortIsHardFailure == [](C22_Callbacks) /\ [][C22_CallbackStep]_vars

\* a score was emitted, then another classification was aborted: the log
\* holds the one event and the aborted computation is still with the cluster
C22_Witness ==
    /\ last.op = "classify_email_callback" /\ last.err = "AbortedComputation"
    /\ Len(events) = 1 /\ events[1].name = "ScoreEvent"
    /\ \E c \in ComputationOffsets :
          /\ computations[c] # NoAccount
          /\ computations[c].ix = "classify_email"
    /\ \E c \in ComputationOffsets : computations[c] = NoAccount

-----------------------------------------------------------------------------
(* escrow-contract and solmail_escrow on a ledger where anyone may also     *)
(* transfer lamports to an escrow account (system transfer).               *)

\* the lamports of one additional deposit
DepositLamports == 7

\* a Pending escrow account that holds what its creation left on it
Undeposited ==
    {pda \in Pending : Sums(RentExempt, escrows[pda].amount, lamports[pda])}
    \cup {pda \in SolmailExisting : Sums(RentExempt, solmail[pda].amount, lamports[pda])}

\* system_program::transfer by wallet k to an escrow account
Deposit ==
    \E k \in Keys, pda \in Undeposited :
        LET paid == Transfer(Ledger(lamports), Wallet(k), pda, U64(DepositLamports))
        IN  /\ paid.ok
            /\ lamports' = paid.l
            /\ last' = [op |-> "transfer", err |-> "Ok", signer |-> k]
            /\ UNCHANGED <<now, escrows, zero, solmail, commits, probe,
                           computations, events>>

NextDeposit ==
    \/ PairCreateEscrow \/ ReleaseEscrow \/ RefundEscrow
    \/ PairInitializeEscrow \/ RegisterAndClaim \/ SolmailRefundEscrow
    \/ Deposit
    \/ Tick(PairInstants)

SpecDeposit == Init /\ [][NextDeposit]_vars

\* a - b for a >= b
Diff(a, b) == Low(SubLimbs(a, b, 0))

\* the account holds at least the reserve plus amount
Solvent(balance, amount) ==
    Ge(balance, RentExempt) /\ Ge(Diff(balance, RentExempt), amount)

\* the ledger l credits the wallets together no more than `limit` above
\* the current ledger: one wallet at most is credited, or two whose credits
\* add up within the limit
CreditsWithin(l, limit) ==
    /\ \A w \in Wallets : Ge(l[w], lamports[w])
    /\ \A w \in Wallets : Ge(limit, Diff(l[w], lamports[w]))
    /\ \A v, w \in Wallets :
          v # w =>
              LET total == AddLimbs(Diff(l[v], lamports[v]), Diff(l[w], lamports[w]), 0)
              IN  Carry(total) = 0 /\ Ge(limit, Low(total))

C23_Reserve ==
    /\ \A pda \in Existing :
          /\ Ge(lamports[pda], RentExempt)
          /\ escrows[pda].status = "Pending" => Solvent(lamports[pda], escrows[pda].amount)
    /\ \A pda \in SolmailExisting :
          /\ Ge(lamports[pda], RentExempt)
          /\ solmail[pda].status = "Pending" => Solvent(lamports[pda], solmail[pda].amount)

C23_Disbursement ==
    /\ \A pda \in Existing, caller \in Keys, account \in Keys :
          LET released == ReleaseEscrowIx(caller, pda, account)
              refunded == RefundEscrowIx(caller, pda, account)
              limit    == Diff(lamports[pda], RentExempt)
          IN  /\ released.err = "Ok" =>
                    /\ Ge(released.lamports[pda], RentExempt)
                    /\ CreditsWithin(released.lamports, limit)
              /\ refunded.err = "Ok" =>
                    /\ Ge(refunded.lamports[pda], RentExempt)
                    /\ CreditsWithin(refunded.lamports, limit)
    /\ \A pda \in SolmailExisting, caller \in Keys :
          LET e       == solmail[pda]
              claimed == RegisterAndClaimIx(caller, e.sender, e.thread_id)
              refund  == SolmailRefundEscrowIx(caller, e.thread_id)
              limit   == Diff(lamports[pda], RentExempt)
          IN  /\ claimed.err = "Ok" => CreditsWithin(claimed.lamports, limit)
              /\ refund.err = "Ok" => CreditsWithin(refund.lamports, limit)

\* C23: in escrow-contract and solmail_escrow the account of an existing
\* escrow record holds at least the minimum reserve, and at least the
\* reserve plus amount while the escrow is Pending; a successful release,
\* refund or claim credits the wallets no more than the account's balance
\* less the reserve.
C23_ReserveAndSolvency == C23_Reserve /\ C23_Disbursement

\* an escrow was released after a deposit: its account holds the reserve
\* and the deposit
C23_Witness ==
    /\ last.op = "release_escrow" /\ last.err = "Ok"
    /\ \E pda \in Existing :
          /\ escrows[pda].status = "Released"
          /\ lamports[pda] = U64(RentLamports + DepositLamports)

\* C25: a successful register_and_claim credits the receiver, and a
\* successful refund_escrow the sender, with exactly the stored
\* escrow.amount, also when the escrow account received deposits after
\* its creation.
C25_DisbursesStoredAmount ==
    \A pda \in SolmailExisting, receiver \in Keys :
        LET e       == solmail[pda]
            claimed == RegisterAndClaimIx(receiver, e.sender, e.thread_id)
            refund  == SolmailRefundEscrowIx(e.sender, e.thread_id)
        IN  /\ claimed.err = "Ok" =>
                  Sums(lamports[Wallet(receiver)], e.amount,
                       claimed.lamports[Wallet(receiver)])
            /\ refund.err = "Ok" =>
                  Sums(lamports[Wallet(e.sender)], e.amount,
                       refund.lamports[Wallet(e.sender)])

\* a claim on an escrow of 50 that had received a deposit has paid the
\* receiver the amount and the deposit
C25_DepositPaidOut ==
    /\ last.op = "register_and_claim" /\ last.err = "Ok"
    /\ last.signer # 1
    /\ lamports[Wallet(last.signer)] = U64(50 + DepositLamports)
    /\ \A pda \in SolmailPdas : solmail[pda] = NoAccount

\* the ledger l differs from the current one on no account outside `parties`
OnlyChanged(l, parties) == \A a \in Accounts \ parties : l[a] = lamports[a]

\* C24: in escrow-contract a refund_escrow naming a sender account other
\* than the stored sender's is rejected with InvalidSender, a
\* release_escrow naming a platform account other than the stored
\* platform's with InvalidPlatform; a successful refund moves the amount
\* from custody to the stored sender whoever signs, a successful release
\* moves it to the stored recipient and the stored platform, and no other
\* balance changes.
C24_OnlyStoredParties ==
    \A pda \in Existing, caller \in Keys, account \in Keys :
        LET e        == escrows[pda]
            refunded == RefundEscrowIx(caller, pda, account)
            released == ReleaseEscrowIx(caller, pda, account)
        IN  /\ account # e.sender => RejectedWith(refunded, "InvalidSender")
            /\ account # e.platform => RejectedWith(released, "InvalidPlatform")
            /\ refunded.err = "Ok" =>
                  Moved(lamports, refunded.lamports, pda, Wallet(e.sender), e.amount)
            /\ released.err = "Ok" =>
                  /\ caller = e.recipient
                  /\ Sums(released.lamports[pda], e.amount, lamports[pda])
                  /\ OnlyChanged(released.lamports,
                                 {pda, Wallet(e.recipient), Wallet(e.platform)})
                  /\ CreditsWithin(released.lamports, e.amount)
                  /\ e.recipient # e.platform =>
                        /\ Sums(lamports[Wallet(e.recipient)], calculate_recipient_amount(e),
                                released.lamports[Wallet(e.recipient)])
                        /\ Sums(lamports[Wallet(e.platform)], calculate_platform_fee(e),
                                released.lamports[Wallet(e.platform)])
                  /\ e.recipient = e.platform =>
                        Sums(lamports[Wallet(e.recipient)], e.amount,
                             released.lamports[Wallet(e.recipient)])

\* after the timeout a key that is not the sender has refunded an escrow
\* of 50, and the stored sender's wallet was credited
C24_Witness ==
    /\ last.op = "refund_escrow" /\ last.err = "Ok"
    /\ \E pda \in Existing :
          /\ escrows[pda].status = "Refunded"
          /\ escrows[pda].amount = U64(50)
          /\ last.signer # escrows[pda].sender
          /\ lamports[Wallet(last.signer)] = Zero64
          /\ lamports[Wallet(escrows[pda].sender)] = U64(InitialFunds - RentLamports)

-----------------------------------------------------------------------------
(* escrow-contract with two wallets funded: two escrows side by side.      *)

InitFrame ==
    /\ lamports = [a \in Accounts |->
                      IF a \in {Wallet(1), Wallet(2)} THEN U64(InitialFunds) ELSE Zero64]
    /\ now = 0
    /\ escrows = [p \in EscrowPdas |-> NoAccount]
    /\ zero = [p \in ZeroPdas |-> NoAccount]
    /\ solmail = [p \in SolmailPdas |-> NoAccount]
    /\ commits = [p \in EscrowPdas \cup SolmailPdas |-> 0]
    /\ last = NoInstruction
    /\ probe = NoValue
    /\ computations = [c \in ComputationOffsets |-> NoAccount]
    /\ events = <<>>

\* the instant of creation and the instant of expiry
FrameInstants == {0, ESCROW_TIMEOUT_SECONDS}

\* escrows of PairAmount created at the first instant, key 1 the platform
FrameCreateEscrow ==
    \E sender \in Keys, recipient \in Keys :
        /\ now = 0
        /\ Process("create_escrow", sender, EscrowPda(MaxEmailLen, sender),
                   CreateEscrowIx(sender, recipient, 1, MaxEmailLen, PairAmount))

NextFrame == FrameCreateEscrow \/ ReleaseEscrow \/ RefundEscrow \/ Tick(FrameInstants)

SpecFrame == InitFrame /\ [][NextFrame]_vars

\* the fields of an Escrow record fixed at creation
CreationFields ==
    {"amount", "sender", "recipient", "platform", "email_id",
     "created_at", "expires_at", "bump"}

C26_Outcomes ==
    /\ \A pda \in Existing, caller \in Keys, account \in Keys :
          LET e        == escrows[pda]
              released == ReleaseEscrowIx(caller, pda, account)
              refunded == RefundEscrowIx(caller, pda, account)
          IN  /\ released.err = "Ok" =>
                    /\ released.accounts = [escrows EXCEPT ![pda].status = "Released"]
                    /\ OnlyChanged(released.lamports,
                                   {pda, Wallet(e.recipient), Wallet(e.platform)})
              /\ refunded.err = "Ok" =>
                    /\ refunded.accounts = [escrows EXCEPT ![pda].status = "Refunded"]
                    /\ OnlyChanged(refunded.lamports, {pda, Wallet(e.sender)})
    /\ \A sender \in Keys, recipient \in Keys, platform \in Keys,
          email_id \in EmailIds, amount \in Amounts :
          \A pda \in Existing :
              CreateEscrowIx(sender, recipient, platform, email_id, amount).accounts[pda]
                  = escrows[pda]

\* a step keeps every existing record and the fields fixed at its creation
C26_Step ==
    \A pda \in EscrowPdas :
        escrows[pda] # NoAccount =>
            /\ escrows'[pda] # NoAccount
            /\ \A f \in CreationFields : escrows'[pda][f] = escrows[pda][f]

\* C26: in escrow-contract no operation changes the amount, sender,
\* recipient, platform, email_id, created_at, expires_at or bump of an
\* existing escrow; release_escrow and refund_escrow change only the status
\* of their escrow and the balances of its custody, recipient, platform
\* and sender accounts, and leave every other record unchanged.
C26_FrameOfRecords == [](C26_Outcomes) /\ [][C26_Step]_vars

\* two escrows side by side: one was just released, the other is Pending
C26_Witness ==
    /\ last.op = "release_escrow" /\ last.err = "Ok"
    /\ \E p, q \in Existing :
          /\ p # q
          /\ escrows[p].status = "Released"
          /\ escrows[p].amount = PairAmount
          /\ escrows[q].status = "Pending"
          /\ Sums(RentExempt, escrows[q].amount, lamports[q])

\* some release request on the escrow at pda would succeed now
ReleaseOpen(pda) ==
    \E caller \in Keys, account \in Keys :
        ReleaseEscrowIx(caller, pda, account).err = "Ok"

\* some refund request by a key other than the sender would succeed now
ThirdPartyRefundOpen(pda) ==
    /\ escrows[pda] # NoAccount
    /\ \E refunder \in Keys \ {escrows[pda].sender}, account \in Keys :
          RefundEscrowIx(refunder, pda, account).err = "Ok"

C27_Disjoint ==
    \A pda \in Pending :
        /\ ReleaseOpen(pda) => now < escrows[pda].expires_at
        /\ ThirdPartyRefundOpen(pda) => now >= escrows[pda].expires_at
        /\ ~(ReleaseOpen(pda) /\ ThirdPartyRefundOpen(pda))
        /\ now < escrows[pda].expires_at =>
              \A refunder \in Keys, account \in Keys :
                  RefundEscrowIx(refunder, pda, account).err = "Ok" =>
                      refunder = escrows[pda].sender

\* once a refund by a non-sender has been possible, no release of that
\* escrow is possible again
C27_NoReleaseAfterRefundOpen ==
    \A pda \in EscrowPdas : [](ThirdPartyRefundOpen(pda) => [](~ReleaseOpen(pda)))

\* C27: in escrow-contract a release succeeds only while now < expires_at
\* and a refund by a non-sender only while now >= expires_at, so the two
\* are never possible together; once a non-sender refund has been possible
\* the recipient can never be paid from that escrow, and before expiry only
\* the sender's refund can take the funds away from the recipient.
C27_ReleaseRefundDisjoint == [](C27_Disjoint) /\ C27_NoReleaseAfterRefundOpen

\* at expiry the stored recipient's release was refused while the escrow is
\* Pending and open to a refund by anyone
C27_Witness ==
    /\ last.op = "release_escrow" /\ last.err = "EscrowExpired"
    /\ \E pda \in Pending :
          /\ last.signer = escrows[pda].recipient
          /\ last.signer # escrows[pda].sender
          /\ now = escrows[pda].expires_at
          /\ ThirdPartyRefundOpen(pda)

\* every request to claim or to refund the escrow of (sender, thread_id)
\* fails
SolmailSettled(sender, thread_id) ==
    /\ \A receiver \in Keys : RegisterAndClaimIx(receiver, sender, thread_id).err # "Ok"
    /\ SolmailRefundEscrowIx(sender, thread_id).err # "Ok"

C28_ClaimAlwaysOpen ==
    \A pda \in SolmailExisting, receiver \in Keys :
        LET e       == solmail[pda]
            claimed == RegisterAndClaimIx(receiver, e.sender, e.thread_id)
            refund  == SolmailRefundEscrowIx(e.sender, e.thread_id)
        IN  /\ claimed.err = "Ok"
            /\ claimed.closed.status = "Completed"
            /\ claimed.closed.receiver = receiver
            /\ refund.err = "Ok" <=> now >= e.expires_at
            /\ refund.err = "Ok" => refund.closed.status = "Refunded"

\* the step that commits a claim or a refund leaves an escrow on which
\* both requests fail
C28_FirstCommitWins ==
    \A sender \in Keys, thread_id \in ThreadIds :
        LET pda == SolmailPda(sender, thread_id)
        IN  (solmail[pda] # NoAccount /\ solmail'[pda] # solmail[pda]) =>
                /\ last'.op \in {"register_and_claim", "refund_escrow"}
                /\ last'.err = "Ok"
                /\ commits'[pda] = commits[pda] + 1
                /\ SolmailSettled(sender, thread_id)'

\* C28: register_and_claim of solmail_escrow has no expiry guard: on a
\* Pending escrow, with its thread_id and sender, it succeeds for every
\* signing caller at every instant; from expires_at on the sender's refund
\* succeeds as well, and the request that commits first settles the
\* escrow, Completed or Refunded, after which the other fails.
C28_ClaimAfterExpiry == [](C28_ClaimAlwaysOpen) /\ [][C28_FirstCommitWins]_vars

\* an escrow created at instant 0 was claimed at or after its deadline,
\* and the sender's refund fails now
C28_Witness ==
    /\ last.op = "register_and_claim" /\ last.err = "Ok"
    /\ now >= FIFTEEN_DAYS
    /\ \E sender \in Keys, thread_id \in ThreadIds :
          /\ commits[SolmailPda(sender, thread_id)] = 1
          /\ last.signer # sender
          /\ SolmailSettled(sender, thread_id)

=============================================================================
